---- MODULE Spec2Model ----
(***************************************************************************)
(* Model of the recurrent-network notebook                                 *)
(*   src/RNNs/Implementing Custom RNNs using Tensorflow and Keras.ipynb    *)
(*                                                                         *)
(* Tensors are sequences of rows; a row is a sequence of numbers.  Numbers *)
(* are fixed-point: inputs, states and biases count quarters (4 = 1.0),    *)
(* kernel entries are whole numbers, so a matrix product of an input or a  *)
(* state with a kernel is again in quarters and needs no rounding.         *)
(* float32 rounding is not modelled.                                       *)
(***************************************************************************)
EXTENDS Integers, Sequences, FiniteSets, TLC

\* ---------------------------------------------------------------- bounds
MaxB == 2        \* largest batch cardinality of an input
MaxT == 2        \* largest number of time steps of an input
D == 2           \* feature length the kernels are built for (16 in the notebook)
units == 2       \* hidden-state length (3 in the notebook)
MaxCalls == 2    \* largest number of calls of one driver instance
ImgH == 2        \* height of the input image (16 in the notebook)
ImgW == 2        \* width of the input image (16 in the notebook)
n_outputs == 2   \* filters of the conv layer, units of the dense layer (128)

HVals == {-2, 3}      \* values of a state entry handed to the cell directly
WVals == {0, 1}       \* values of a kernel entry
BVals == {-1, 0, 1}   \* values of a bias entry

dense_units == 128   \* RNN_Model.dense
out_units == 10      \* RNN_Model.out

\* ------------------------------------------------------- tensor helpers
Zeros(r, c) == [i \in 1..r |-> [j \in 1..c |-> 0]]

Fill(r, c, v) == [i \in 1..r |-> [j \in 1..c |-> v]]

Tensors2(r, c, V) == [1..r -> [1..c -> V]]

\* matrices with at most one entry different from 0
SparseMats(r, c, V) ==
  {Zeros(r, c)} \cup
  { [i \in 1..r |-> [j \in 1..c |-> IF i = p[1] /\ j = p[2] THEN v ELSE 0]] :
      p \in (1..r) \X (1..c), v \in V \ {0} }

SparseVecs(c, V) ==
  {[j \in 1..c |-> 0]} \cup
  { [j \in 1..c |-> IF j = k THEN v ELSE 0] : k \in 1..c, v \in V \ {0} }

\* the sequence f as a tuple: the same value, evaluated once
AsTuple(f) == <<>> \o f

Rows(m) == Len(m)
Cols(m) == Len(m[1])

RECURSIVE SumTo(_, _)
SumTo(f, n) == IF n = 0 THEN 0 ELSE f[n] + SumTo(f, n - 1)

\* outcome of an operation that can raise
Ok(v) == [ok |-> TRUE, val |-> v]
Raised == [ok |-> FALSE, val |-> <<>>]

\* --------------------------------------------------- framework operations
\* tf.nn.tanh on quarters, rounded to the nearest quarter:
\* tanh(0.25) = 0.245, tanh(0.5) = 0.462, tanh(0.75) = 0.635, tanh(1) = 0.762,
\* tanh(1.25) = 0.848, tanh(1.5) = 0.905, and 1.0 from there on.
TanhTable == <<1, 2, 3, 3, 3, 4>>

TanhPos(z) == IF z >= Len(TanhTable) THEN TanhTable[Len(TanhTable)] ELSE TanhTable[z]

\* the logistic function (1 + tanh(z / 2)) / 2 on quarters
Sigmoid(z) ==
  LET half == IF z >= 0 THEN z \div 2 ELSE 0 - ((0 - z) \div 2)
      th == IF half = 0 THEN 0 ELSE IF half > 0 THEN TanhPos(half) ELSE 0 - TanhPos(0 - half)
  IN  (4 + th) \div 2

Tanh(z) == IF z = 0 THEN 0 ELSE IF z > 0 THEN TanhPos(z) ELSE 0 - TanhPos(0 - z)

TanhAll(m) == AsTuple([r \in 1..Rows(m) |-> AsTuple([j \in 1..Cols(m) |-> Tanh(m[r][j])])])

\* tf.matmul(x, kernel): x is (B, n), kernel is (n, k)
MatMul(x, kernel) ==
  [r \in 1..Rows(x) |->
    [j \in 1..Cols(kernel) |->
      SumTo([i \in 1..Rows(kernel) |-> x[r][i] * kernel[i][j]], Rows(kernel))]]

\* a built Dense layer without bias and activation: the input's last axis must
\* have the length the kernel was built for, otherwise the layer raises
Dense(x, kernel) ==
  IF Cols(x) # Rows(kernel) THEN Raised ELSE Ok(MatMul(x, kernel))

\* a + b on two rank-2 tensors with the same number of columns: equal row
\* counts add row by row, a single row is broadcast over the rows of the other,
\* any other pair of row counts raises
Add(a, b) ==
  IF Rows(a) = Rows(b)
    THEN Ok([r \in 1..Rows(a) |-> [j \in 1..Cols(a) |-> a[r][j] + b[r][j]]])
  ELSE IF Rows(a) = 1
    THEN Ok([r \in 1..Rows(b) |-> [j \in 1..Cols(b) |-> a[1][j] + b[r][j]]])
  ELSE IF Rows(b) = 1
    THEN Ok([r \in 1..Rows(a) |-> [j \in 1..Cols(a) |-> a[r][j] + b[1][j]]])
  ELSE Raised

\* m + bias for a rank-1 bias as long as the rows of m
BiasAdd(m, b) == [r \in 1..Rows(m) |-> [j \in 1..Cols(m) |-> m[r][j] + b[j]]]

\* data[0, t, :] taken for every sequence of the batch
TimeSlice_FirstRow(d, k) == [b \in 1..Len(d) |-> d[1][k + 1]]

\* data[:, T - 1 - t, :]: the time axis walked from its end
TimeSlice_FromEnd(d, k) == [b \in 1..Len(d) |-> d[b][Len(d[b]) - k]]

\* data[:, t, :] for a 0-based time index t
TimeSlice(d, k) == [b \in 1..Len(d) |-> d[b][k + 1]]

\* tf.transpose(x, [1, 0, 2])
Transpose102(x) ==
  IF Len(x) = 0 THEN <<>>
  ELSE [b \in 1..Len(x[1]) |-> [k \in 1..Len(x) |-> x[k][b]]]

\* tf.TensorArray(size = n): n slots, none written
TensorArray(n) == [k \in 1..n |-> <<>>]

\* TensorArray.write(t, value) for a 0-based index t
Write(ta, k, v) == [ta EXCEPT ![k + 1] = v]

\* TensorArray.stack(): the slots as one tensor with the time axis first; a
\* slot never written reads as zeros of the element shape, which is known
\* from the first write only: stacking an array nothing was written to raises
Stack(ta) ==
  IF \A k \in 1..Len(ta) : ta[k] = <<>> THEN Raised
  ELSE LET w == CHOOSE k \in 1..Len(ta) : ta[k] # <<>>
       IN  Ok([k \in 1..Len(ta) |->
                 IF ta[k] = <<>> THEN Zeros(Rows(ta[w]), Cols(ta[w])) ELSE ta[k]])

\* ------------------------------------------------------------------ state
VARIABLES
  dense_input,        \* CustomSimpleRNNCell.dense_input kernel, (D, units)
  dense_hstate,       \* CustomSimpleRNNCell.dense_hstate kernel, (units, units)
  RNN_Cell_biases,    \* CustomSimpleRNNCell.bias, (units)
  return_sequences,   \* RNNWrapper.return_sequences
  pc,                 \* where the current call stands
  caller,             \* the entry point of the current call
  data,               \* RNNWrapper.call: the input, (B, T, features)
  t,                  \* RNNWrapper.call: the loop index
  state,              \* RNNWrapper.call: the state of the cell
  hidden_states,      \* RNNWrapper.call: the TensorArray
  outputs,            \* RNNWrapper.call: the returned value
  prediction,         \* RNN_Model.call: the shape of the returned value
  ncalls,             \* number of calls of the driver instance so far
  prev_shape,         \* <<B, T>> of the input of the previous call of the instance
  cell_args,          \* CustomSimpleRNNCell.call: <<input_t, state>> of a direct call
  cell_ret,           \* CustomSimpleRNNCell.call: outcome of a direct call
  RNN_trainable_variables,  \* built-in cell: <<kernel, recurrent kernel, bias>>
  input_sequence,     \* the notebook's input, (B, T, D)
  dense_layer_input,  \* kernel of the hand-made input layer, (D, units)
  dense_layer_hstate, \* kernel of the hand-made state layer, (units, units)
  bias,               \* the hand-made bias, (units)
  custom_RNN_outputs, \* result of the hand-made loop that returns sequences
  printed,            \* what the cells of the notebook have printed, in order
  trace,              \* the time indices the step was applied to in the current run
  \* ---- the notebook on the functional and the subclassing API, and CNN.call
  functional_weights, \* functional_model: <<kernel, bias>> of its three Dense layers
  subclassed_weights, \* subclassed_model: <<kernel, bias>> of its three Dense layers
  callee,             \* the model whose call is running
  x_in,               \* the input the running call was given
  x_local,            \* call: the local x, the value handed from layer to layer
  training,           \* call: the argument training
  layer,              \* call: position of "for layer in ..." in the list, from 1
  calls,              \* the layer calls of the running call: <<position, arguments, outcome>>
  returned,           \* per model, <<input, training, output>> of its last call that returned
  \* ---- the notebook on convolutional and fully connected layers
  input_img,          \* the input, <<1, height, width, 1>>
  convlayer,          \* convlayer.weights: <<kernel, bias>>
  denselayer,         \* denselayer.weights: <<kernel, bias>>
  denseoutput,        \* output of the dense layer
  convoutput,         \* output of the conv layer
  \* ---- the TensorBoard notebook: the training loop of the CNN
  epoch,              \* "for epoch in range(...)"
  metrics_list,       \* model.metrics: per metric [name, total, count]
  metrics,            \* the dictionary the last train_step or test_step returned
  train_summary_writer,  \* the scalars written to the train log: [tag, value, step]
  val_summary_writer, \* the scalars written to the validation log
  batches,            \* the batches the running "for data in ..." loop has handed out
  \* ---- the gradient-tape notebook
  X,                  \* the inputs of the dataset
  Y,                  \* the targets of the dataset
  parameter_estimate, \* the parameter, in thousandths
  learning_rate,      \* the learning rate, in hundred-thousandths
  epochs,             \* the n of "for epoch in range(n)"
  gd_epoch,           \* "for epoch in range(n)"
  example,            \* position of "for x, y in zip(X, Y)", from 1
  updates,            \* number of assignments to the parameter so far
  optimizer,          \* the SGD optimizer of the loop with an optimizer: its settings
  \* ---- the tokenization notebook: the vocabulary of sentences
  text_corpus,        \* the text, a sequence of characters
  sentence_tokens,    \* text_corpus.split(".")
  vocab_list,         \* list(set(sentence_tokens))[1:]
  vocab,              \* sentence -> index
  reverse_vocab,      \* index -> sentence
  \* ---- the TensorBoard notebook: the loop that shows the summary writer
  summary_writer,     \* the summaries written: [kind, name, step]
  log_step            \* "for i in range(100)"

vars == <<dense_input, dense_hstate, RNN_Cell_biases, return_sequences, pc, caller,
          data, t, state, hidden_states, outputs, prediction, ncalls, prev_shape,
          cell_args, cell_ret, RNN_trainable_variables, input_sequence,
          dense_layer_input, dense_layer_hstate, bias, custom_RNN_outputs,
          printed, trace,
          functional_weights, subclassed_weights, callee, x_in, x_local, training, layer,
          calls, returned,
          input_img, convlayer, denselayer, denseoutput, convoutput,
          epoch, metrics_list, metrics, train_summary_writer, val_summary_writer, batches,
          X, Y, parameter_estimate, learning_rate, epochs, gd_epoch, example, updates,
          optimizer,
          text_corpus, sentence_tokens, vocab_list, vocab, reverse_vocab,
          summary_writer, log_step>>

\* the variables of the loop that shows the summary writer
sw_vars == <<summary_writer, log_step>>

SWIdle ==
  /\ summary_writer = <<>>
  /\ log_step = 0

\* the variables of the training loop of the TensorBoard notebook
tb_vars == <<epoch, metrics_list, metrics, train_summary_writer, val_summary_writer,
             batches>>

TBIdle ==
  /\ epoch = 0
  /\ metrics_list = <<>>
  /\ metrics = <<>>
  /\ train_summary_writer = <<>>
  /\ val_summary_writer = <<>>
  /\ batches = <<>>

\* the variables of the gradient-tape notebook
gd_vars == <<X, Y, parameter_estimate, learning_rate, epochs, gd_epoch, example, updates,
             optimizer>>

GDIdle ==
  /\ X = <<>>
  /\ Y = <<>>
  /\ parameter_estimate = 0
  /\ learning_rate = 0
  /\ epochs = 0
  /\ gd_epoch = 0
  /\ example = 0
  /\ updates = 0
  /\ optimizer = <<>>

\* the variables of the sentence vocabulary
vocab_vars == <<text_corpus, sentence_tokens, vocab_list, vocab, reverse_vocab>>

VocabIdle ==
  /\ text_corpus = <<>>
  /\ sentence_tokens = <<>>
  /\ vocab_list = <<>>
  /\ vocab = <<>>
  /\ reverse_vocab = <<>>

\* the variables of the notebook on convolutional and fully connected layers
conv_vars == <<input_img, convlayer, denselayer, denseoutput, convoutput>>

\* this notebook has not run
ConvIdle ==
  /\ input_img = <<>>
  /\ convlayer = <<>>
  /\ denselayer = <<>>
  /\ denseoutput = <<>>
  /\ convoutput = <<>>

\* the variables of the recurrent notebook but pc
rnn_vars == <<dense_input, dense_hstate, RNN_Cell_biases, return_sequences, caller,
              data, t, state, hidden_states, outputs, prediction, ncalls, prev_shape,
              cell_args, cell_ret, RNN_trainable_variables, input_sequence,
              dense_layer_input, dense_layer_hstate, bias, custom_RNN_outputs,
              printed, trace>>

\* the variables of the notebook on the two APIs
api_vars == <<functional_weights, subclassed_weights, callee, x_in, x_local, training, layer,
              calls, returned>>

\* the variables neither the recurrent notebook nor the one on the APIs touches
not_api == <<conv_vars, tb_vars, gd_vars, vocab_vars, sw_vars>>

not_conv == <<tb_vars, gd_vars, vocab_vars, sw_vars>>

not_tb == <<rnn_vars, api_vars, conv_vars, gd_vars, vocab_vars, sw_vars>>

not_gd == <<rnn_vars, api_vars, conv_vars, tb_vars, vocab_vars, sw_vars>>

not_vocab == <<rnn_vars, api_vars, conv_vars, tb_vars, gd_vars, sw_vars>>

not_sw == <<rnn_vars, api_vars, conv_vars, tb_vars, gd_vars, vocab_vars>>

\* the variables the recurrent notebook never touches
others == <<api_vars, conv_vars, tb_vars, gd_vars, vocab_vars, sw_vars>>

\* the notebook on the two APIs has not run
APIIdle ==
  /\ functional_weights = <<>>
  /\ subclassed_weights = <<>>
  /\ callee = "none"
  /\ x_in = <<>>
  /\ x_local = <<>>
  /\ training = FALSE
  /\ layer = 0
  /\ calls = <<>>
  /\ returned = <<>>

weights == <<dense_input, dense_hstate, RNN_Cell_biases>>

\* the variables of the cells of the notebook that come before the classes
notebook == <<RNN_trainable_variables, input_sequence, dense_layer_input,
              dense_layer_hstate, bias, custom_RNN_outputs>>

\* the variables of a call of the wrapper, the model or the cell
subclass == <<weights, return_sequences, caller, data, outputs, prediction, ncalls,
              prev_shape, cell_args, cell_ret>>

\* CustomSimpleRNNCell.call without the bias
CellCall_NoBias(input_t, h, kernel_x, kernel_h, b) ==
  LET xw == Dense(input_t, kernel_x)
      hw == Dense(h, kernel_h)
  IN  IF ~xw.ok \/ ~hw.ok THEN Raised
      ELSE LET s == Add(xw.val, hw.val)
           IN  IF ~s.ok THEN Raised
               ELSE Ok(TanhAll(s.val))

\* ------------------------------------------------- CustomSimpleRNNCell.call
\* x_sum = self.dense_input(input_t) + self.dense_hstate(state) + self.bias
\* state = tf.nn.tanh(x_sum)
CellCall(input_t, h, kernel_x, kernel_h, b) ==
  LET xw == Dense(input_t, kernel_x)
      hw == Dense(h, kernel_h)
  IN  IF ~xw.ok \/ ~hw.ok THEN Raised
      ELSE LET s == Add(xw.val, hw.val)
           IN  IF ~s.ok THEN Raised
               ELSE Ok(TanhAll(BiasAdd(s.val, b)))

\* ------------------------------------------------------------ inputs drawn
\* the feature vectors an input is made of: <<-1, 2>> and <<2, 0>> for D = 2
XVecs ==
  { [j \in 1..D |-> IF j = 1 THEN -1 ELSE 2],
    [j \in 1..D |-> IF j = D THEN 0 ELSE 2] }

\* a feature vector one longer than the kernels were built for
LongVec == [j \in 1..(D + 1) |-> 2]

\* inputs of B sequences of T steps
GoodInputs == UNION { [1..b -> [1..n -> XVecs]] : b \in 1..MaxB, n \in 1..MaxT }

BadInputs == { [i \in 1..b |-> [k \in 1..n |-> LongVec]] : b \in 1..MaxB, n \in 1..MaxT }

Inputs == GoodInputs \cup BadInputs

\* arguments of a direct call of the cell: any batch cardinality for either
\* argument, the feature length the kernel expects or one more
CellInputs ==
  UNION { [1..b -> XVecs] : b \in 1..MaxB } \cup { [i \in 1..b |-> LongVec] : b \in 1..MaxB }

CellStates ==
  UNION { Tensors2(b, units, HVals) : b \in 1..MaxB }
  \cup { Fill(b, units + 1, 3) : b \in 1..MaxB }

\* the kernels a freshly built hand-made Dense layer can start with (the
\* initializer is random)
InitKernels(r, c) == { Fill(r, c, v) : v \in {-1, 1} }

\* the weights a cell can hold: <<input kernel, state kernel, bias>>
CellWeights ==
  SparseMats(D, units, WVals) \X SparseMats(units, units, WVals) \X SparseVecs(units, BVals)

\* ------------------------------------------------------------------- Init
\* Either the classes of the second half of the notebook are instantiated
\* (a CustomSimpleRNNCell inside an RNNWrapper), or the first half of the
\* notebook is about to run (the built-in RNN and the input exist).
InitSubclass ==
  /\ \E w \in CellWeights :
       /\ dense_input = w[1]
       /\ dense_hstate = w[2]
       /\ RNN_Cell_biases = w[3]
  /\ return_sequences \in BOOLEAN
  /\ pc = "idle"
  /\ RNN_trainable_variables = <<>>
  /\ input_sequence = <<>>

InitNotebook ==
  /\ dense_input = <<>>
  /\ dense_hstate = <<>>
  /\ RNN_Cell_biases = <<>>
  /\ return_sequences = FALSE
  /\ pc = "f192659b"
  /\ RNN_trainable_variables \in CellWeights
  /\ input_sequence \in GoodInputs

Init ==
  /\ InitSubclass \/ InitNotebook
  /\ caller = "none"
  /\ data = <<>>
  /\ t = 0
  /\ state = <<>>
  /\ hidden_states = <<>>
  /\ outputs = <<>>
  /\ prediction = <<>>
  /\ ncalls = 0
  /\ prev_shape = <<>>
  /\ cell_args = <<>>
  /\ cell_ret = <<>>
  /\ dense_layer_input = <<>>
  /\ dense_layer_hstate = <<>>
  /\ bias = <<>>
  /\ custom_RNN_outputs = <<>>
  /\ printed = <<>>
  /\ trace = <<>>
  /\ APIIdle
  /\ ConvIdle
  /\ TBIdle
  /\ GDIdle
  /\ VocabIdle
  /\ SWIdle

\* ------------------------------------------- actions: the subclassed layers
NoCall == pc \in {"idle", "done", "raised"}

\* RNNWrapper.call that allocates the state for the batch cardinality of the
\* first input it was called with
Call_FixedBatch(d, c) ==
  /\ NoCall
  /\ caller # "cell"
  /\ ncalls < MaxCalls
  /\ c = "RNN_Model" => ~return_sequences
  /\ ncalls' = ncalls + 1
  /\ prev_shape' = IF data = <<>> THEN <<>> ELSE <<Len(data), Len(data[1])>>
  /\ data' = d
  /\ state' = Zeros(IF state = <<>> THEN Len(d) ELSE Rows(state), units)
  /\ hidden_states' = TensorArray(Len(d[1]))
  /\ t' = 0
  /\ pc' = "loop"
  /\ caller' = c
  /\ outputs' = <<>>
  /\ prediction' = <<>>
  /\ cell_args' = <<>>
  /\ cell_ret' = <<>>
  /\ trace' = <<>>
  /\ UNCHANGED <<weights, return_sequences, notebook, printed>>
  /\ UNCHANGED others

\* RNNWrapper.call that keeps the state the previous call ended with when its
\* shape fits the new input (a stateful driver)
Call_Stateful(d, c) ==
  /\ NoCall
  /\ caller # "cell"
  /\ ncalls < MaxCalls
  /\ c = "RNN_Model" => ~return_sequences
  /\ ncalls' = ncalls + 1
  /\ prev_shape' = IF data = <<>> THEN <<>> ELSE <<Len(data), Len(data[1])>>
  /\ data' = d
  /\ state' = IF Len(state) = Len(d) THEN state ELSE Zeros(Len(d), units)
  /\ hidden_states' = TensorArray(Len(d[1]))
  /\ t' = 0
  /\ pc' = "loop"
  /\ caller' = c
  /\ outputs' = <<>>
  /\ prediction' = <<>>
  /\ cell_args' = <<>>
  /\ cell_ret' = <<>>
  /\ trace' = <<>>
  /\ UNCHANGED <<weights, return_sequences, notebook, printed>>
  /\ UNCHANGED others

\* RNNWrapper.call with a state one entry longer than the cell's units
Call_WideState(d, c) ==
  /\ NoCall
  /\ caller # "cell"
  /\ ncalls < MaxCalls
  /\ c = "RNN_Model" => ~return_sequences
  /\ ncalls' = ncalls + 1
  /\ prev_shape' = IF data = <<>> THEN <<>> ELSE <<Len(data), Len(data[1])>>
  /\ data' = d
  /\ state' = Zeros(Len(d), units + 1)
  /\ hidden_states' = TensorArray(Len(d[1]))
  /\ t' = 0
  /\ pc' = "loop"
  /\ caller' = c
  /\ outputs' = <<>>
  /\ prediction' = <<>>
  /\ cell_args' = <<>>
  /\ cell_ret' = <<>>
  /\ trace' = <<>>
  /\ UNCHANGED <<weights, return_sequences, notebook, printed>>
  /\ UNCHANGED others

\* RNNWrapper.call up to the loop: length, the zero state, the TensorArray.
\* RNN_Model builds its wrapper with return_sequences = False.
\* A driver instance is called at most MaxCalls times.
Call(d, c) ==
  /\ NoCall
  /\ caller # "cell"
  /\ ncalls < MaxCalls
  /\ c = "RNN_Model" => ~return_sequences
  /\ ncalls' = ncalls + 1
  /\ prev_shape' = IF data = <<>> THEN <<>> ELSE <<Len(data), Len(data[1])>>
  /\ data' = d
  /\ state' = Zeros(Len(d), units)
  /\ hidden_states' = TensorArray(Len(d[1]))
  /\ t' = 0
  /\ pc' = "loop"
  /\ caller' = c
  /\ outputs' = <<>>
  /\ prediction' = <<>>
  /\ cell_args' = <<>>
  /\ cell_ret' = <<>>
  /\ trace' = <<>>
  /\ UNCHANGED <<weights, return_sequences, notebook, printed>>
  /\ UNCHANGED others

\* an iteration that also moves the bias towards the new state (a training
\* step inside the forward run)
Step_Training ==
  /\ pc = "loop"
  /\ t < Len(data[1])
  /\ LET r == CellCall(TimeSlice(data, t), state,
                       dense_input, dense_hstate, RNN_Cell_biases)
     IN  IF ~r.ok
           THEN /\ pc' = "raised"
                /\ UNCHANGED <<state, t, trace, RNN_Cell_biases>>
           ELSE /\ state' = r.val
                /\ RNN_Cell_biases' = r.val[1]
                /\ trace' = Append(trace, t)
                /\ IF return_sequences
                     THEN /\ pc' = "raised"
                          /\ t' = t
                     ELSE /\ pc' = "loop"
                          /\ t' = t + 1
  /\ UNCHANGED <<hidden_states, dense_input, dense_hstate, return_sequences, caller, data,
                 outputs, prediction, ncalls, prev_shape, cell_args, cell_ret, notebook,
                 printed>>
  /\ UNCHANGED others

\* one iteration of "for t in tf.range(length)"; TensorArray has no method
\* append, so the iteration raises AttributeError when return_sequences is set
Step ==
  /\ pc = "loop"
  /\ t < Len(data[1])
  /\ LET r == CellCall(TimeSlice(data, t), state,
                       dense_input, dense_hstate, RNN_Cell_biases)
     IN  IF ~r.ok
           THEN /\ pc' = "raised"
                /\ UNCHANGED <<state, t, trace>>
           ELSE /\ state' = r.val
                /\ trace' = Append(trace, t)
                /\ IF return_sequences
                     THEN /\ pc' = "raised"
                          /\ t' = t
                     ELSE /\ pc' = "loop"
                          /\ t' = t + 1
  /\ UNCHANGED <<hidden_states, subclass, notebook, printed>>
  /\ UNCHANGED others

\* after the loop: the stacked and transposed states, or the last state
Return ==
  /\ pc = "loop"
  /\ t = Len(data[1])
  /\ IF return_sequences
       THEN LET s == Stack(hidden_states)
            IN  IF s.ok
                  THEN /\ outputs' = Transpose102(s.val)
                       /\ pc' = IF caller = "RNN_Model" THEN "head" ELSE "done"
                  ELSE /\ outputs' = <<>>
                       /\ pc' = "raised"
       ELSE /\ outputs' = state
            /\ pc' = IF caller = "RNN_Model" THEN "head" ELSE "done"
  /\ UNCHANGED <<weights, return_sequences, caller, data, t, state, hidden_states,
                 prediction, ncalls, prev_shape, cell_args, cell_ret, notebook,
                 printed, trace>>
  /\ UNCHANGED others

\* shape of Dense(n)(x) for x of shape <<rows, columns>>
DenseShape(shape, n) == <<shape[1], n>>

\* RNN_Model.call after the wrapper: self.dense, then self.out
ModelHead ==
  /\ pc = "head"
  /\ prediction' = DenseShape(DenseShape(<<Rows(outputs), Cols(outputs)>>, dense_units),
                              out_units)
  /\ pc' = "done"
  /\ UNCHANGED <<weights, return_sequences, caller, data, t, state, hidden_states,
                 outputs, ncalls, prev_shape, cell_args, cell_ret, notebook,
                 printed, trace>>
  /\ UNCHANGED others

\* a direct call CustomSimpleRNNCell.call(input_t, state) of a fresh cell
DirectCellCall(x, h) ==
  /\ pc = "idle"
  /\ caller = "none"
  /\ cell_args' = <<x, h>>
  /\ cell_ret' = CellCall(x, h, dense_input, dense_hstate, RNN_Cell_biases)
  /\ caller' = "cell"
  /\ UNCHANGED <<pc, weights, return_sequences, data, t, state, hidden_states, outputs,
                 prediction, ncalls, prev_shape, notebook, printed, trace>>
  /\ UNCHANGED others

\* RNNWrapper.call as a function of its input: the state after the first k
\* iterations of the loop, from the zero state (the value returned with
\* return_sequences = False is the one for k = T)
RECURSIVE StateAfter(_, _)
StateAfter(d, k) ==
  IF k = 0 THEN Zeros(Len(d), units)
  ELSE CellCall(TimeSlice(d, k - 1), StateAfter(d, k - 1),
                dense_input, dense_hstate, RNN_Cell_biases).val

\* the input's feature length is the one the input kernel was built for
Fits(d) == Len(d[1][1]) = Rows(dense_input)

\* ------------------------------------- actions: the cells before the classes
\* tf.reshape(tensor, shape) of a rank-2 tensor to <<rows, columns>>: the
\* entries in row-major order, cut into rows anew
\* the entries in column-major order
Flatten_ColMajor(m) == [k \in 1..(Rows(m) * Cols(m)) |-> m[((k - 1) % Rows(m)) + 1][((k - 1) \div Rows(m)) + 1]]

Flatten(m) == [k \in 1..(Rows(m) * Cols(m)) |-> m[((k - 1) \div Cols(m)) + 1][((k - 1) % Cols(m)) + 1]]

Reshape(m, shape) ==
  LET flat == Flatten(m)
  IN  [i \in 1..shape[1] |-> [j \in 1..shape[2] |-> flat[(i - 1) * shape[2] + j]]]

Shape(m) == <<Rows(m), Cols(m)>>

\* the loop body shared by the hand-made loops:
\* x_sum = dense_layer_input(input_t) + dense_layer_hstate(state) + bias
\* state = tf.nn.tanh(x_sum)
ManualStep(input_t, h) ==
  LET xw == Dense(input_t, dense_layer_input)
      hw == Dense(h, dense_layer_hstate)
  IN  IF ~xw.ok \/ ~hw.ok THEN Raised
      ELSE LET x_sum == Add(xw.val, hw.val)
           IN  IF ~x_sum.ok THEN Raised
               ELSE Ok(TanhAll(BiasAdd(x_sum.val, bias)))

\* cell c1b57de0 up to its loop: the two Dense layers, the zero bias and the
\* initial state of ONE row
Cell_c1b57de0 ==
  /\ pc = "f192659b"
  /\ dense_layer_hstate' \in InitKernels(units, units)
  /\ dense_layer_input' \in InitKernels(D, units)
  /\ bias' = [j \in 1..units |-> 0]
  /\ state' = Zeros(1, units)
  /\ t' = 0
  /\ pc' = "c1b57de0"
  /\ trace' = <<>>
  /\ UNCHANGED <<hidden_states, subclass, RNN_trainable_variables, input_sequence,
                 custom_RNN_outputs, printed>>
  /\ UNCHANGED others

\* cell 33cee053 up to its loop: the weights of the built-in cell are assigned
\* to the hand-made layers, the state is one row of zeros again
Cell_33cee053 ==
  /\ pc = "c1b57de0.done"
  /\ dense_layer_hstate' = Reshape(RNN_trainable_variables[2], Shape(dense_layer_hstate))
  /\ dense_layer_input' = Reshape(RNN_trainable_variables[1], Shape(dense_layer_input))
  /\ bias' = RNN_trainable_variables[3]
  /\ state' = Zeros(1, units)
  /\ t' = 0
  /\ pc' = "33cee053"
  /\ trace' = <<>>
  /\ UNCHANGED <<hidden_states, subclass, RNN_trainable_variables, input_sequence,
                 custom_RNN_outputs, printed>>
  /\ UNCHANGED others

\* one iteration of the loop of cell c1b57de0 or 33cee053
FinalLoopStep ==
  /\ pc \in {"c1b57de0", "33cee053"}
  /\ t < Len(input_sequence[1])
  /\ LET r == ManualStep(TimeSlice(input_sequence, t), state)
     IN  IF r.ok
           THEN /\ state' = r.val
                /\ trace' = Append(trace, t)
                /\ t' = t + 1
                /\ pc' = pc
           ELSE /\ pc' = "raised"
                /\ UNCHANGED <<state, t, trace>>
  /\ UNCHANGED <<hidden_states, subclass, notebook, printed>>
  /\ UNCHANGED others

\* the loop of cell c1b57de0 or 33cee053 is over: the state is printed
FinalLoopEnd ==
  /\ pc \in {"c1b57de0", "33cee053"}
  /\ t = Len(input_sequence[1])
  /\ pc' = IF pc = "c1b57de0" THEN "c1b57de0.done" ELSE "33cee053.done"
  /\ printed' = Append(printed, state)
  /\ UNCHANGED <<t, state, hidden_states, subclass, notebook, trace>>
  /\ UNCHANGED others

\* cell 1c416bf4 up to its loop: a zero state with one row per sequence and
\* the TensorArray
Cell_1c416bf4 ==
  /\ pc = "33cee053.done"
  /\ state' = Zeros(Len(input_sequence), units)
  /\ hidden_states' = TensorArray(Len(input_sequence[1]))
  /\ t' = 0
  /\ pc' = "1c416bf4"
  /\ trace' = <<>>
  /\ UNCHANGED <<subclass, notebook, printed>>
  /\ UNCHANGED others

\* one iteration of the loop of cell 1c416bf4
SeqLoopStep ==
  /\ pc = "1c416bf4"
  /\ t < Len(input_sequence[1])
  /\ LET r == ManualStep(TimeSlice(input_sequence, t), state)
     IN  IF r.ok
           THEN /\ state' = r.val
                /\ hidden_states' = Write(hidden_states, t, r.val)
                /\ trace' = Append(trace, t)
                /\ t' = t + 1
                /\ pc' = pc
           ELSE /\ pc' = "raised"
                /\ UNCHANGED <<state, t, hidden_states, trace>>
  /\ UNCHANGED <<subclass, notebook, printed>>
  /\ UNCHANGED others

\* after the loop of cell 1c416bf4: stack and transpose
SeqLoopEnd ==
  /\ pc = "1c416bf4"
  /\ t = Len(input_sequence[1])
  /\ LET s == Stack(hidden_states)
     IN  IF s.ok
           THEN /\ custom_RNN_outputs' = Transpose102(s.val)
                /\ printed' = Append(printed, Transpose102(s.val))
                /\ pc' = "1c416bf4.done"
           ELSE /\ custom_RNN_outputs' = custom_RNN_outputs
                /\ printed' = printed
                /\ pc' = "raised"
  /\ UNCHANGED <<t, state, hidden_states, subclass, RNN_trainable_variables,
                 input_sequence, dense_layer_input, dense_layer_hstate, bias, trace>>
  /\ UNCHANGED others

\* cell bcb25148 with a state kept from the loop before it
Cell_bcb25148_KeepState ==
  /\ pc = "1c416bf4.done"
  /\ state' = state
  /\ hidden_states' = TensorArray(Len(input_sequence[1]))
  /\ t' = 0
  /\ pc' = "bcb25148"
  /\ trace' = <<>>
  /\ UNCHANGED <<subclass, notebook, printed>>
  /\ UNCHANGED others

\* cell bcb25148: tf_func() is called; the function starts from a zero state
\* with one row per sequence and a new TensorArray.  Under @tf.function the
\* "for t in tf.range(...)" becomes a while loop of the graph whose loop
\* variables are state and hidden_states.
Cell_bcb25148 ==
  /\ pc = "1c416bf4.done"
  /\ state' = Zeros(Len(input_sequence), units)
  /\ hidden_states' = TensorArray(Len(input_sequence[1]))
  /\ t' = 0
  /\ pc' = "bcb25148"
  /\ trace' = <<>>
  /\ UNCHANGED <<subclass, notebook, printed>>
  /\ UNCHANGED others

\* one iteration of the while loop of tf_func
TfFuncStep ==
  /\ pc = "bcb25148"
  /\ t < Len(input_sequence[1])
  /\ LET r == ManualStep(TimeSlice(input_sequence, t), state)
     IN  IF r.ok
           THEN /\ state' = r.val
                /\ hidden_states' = Write(hidden_states, t, r.val)
                /\ trace' = Append(trace, t)
                /\ t' = t + 1
                /\ pc' = pc
           ELSE /\ pc' = "raised"
                /\ UNCHANGED <<state, t, hidden_states, trace>>
  /\ UNCHANGED <<subclass, notebook, printed>>
  /\ UNCHANGED others

\* tf_func returns the stacked and transposed states; the notebook assigns
\* them to custom_RNN_outputs and prints them
TfFuncEnd ==
  /\ pc = "bcb25148"
  /\ t = Len(input_sequence[1])
  /\ LET s == Stack(hidden_states)
     IN  IF s.ok
           THEN /\ custom_RNN_outputs' = Transpose102(s.val)
                /\ printed' = Append(printed, Transpose102(s.val))
                /\ pc' = "bcb25148.done"
           ELSE /\ custom_RNN_outputs' = custom_RNN_outputs
                /\ printed' = printed
                /\ pc' = "raised"
  /\ UNCHANGED <<t, state, hidden_states, subclass, RNN_trainable_variables,
                 input_sequence, dense_layer_input, dense_layer_hstate, bias, trace>>
  /\ UNCHANGED others

Next ==
  \/ \E d \in Inputs, c \in {"RNNWrapper", "RNN_Model"} : Call(d, c)
  \/ Step
  \/ Return
  \/ ModelHead
  \/ \E x \in CellInputs, h \in CellStates : DirectCellCall(x, h)
  \/ Cell_c1b57de0
  \/ Cell_33cee053
  \/ FinalLoopStep
  \/ FinalLoopEnd
  \/ Cell_1c416bf4
  \/ SeqLoopStep
  \/ SeqLoopEnd
  \/ Cell_bcb25148
  \/ TfFuncStep
  \/ TfFuncEnd

Spec == Init /\ [][Next]_vars

\* =========================================================================
\* The notebook "Translating between functional and subclassing API" and
\* CNN.call of the TensorBoard notebook: layers applied one after the other.
\* Values of the dense models are tensors of whole numbers; values of the CNN
\* are shapes <<batch, height, width, channels>> or <<batch, features>>.
\* =========================================================================
input_features == 16     \* tf.keras.Input((16))
dropout_rate == 5        \* dropout_rate = 0.5, in tenths
image_size == 28         \* tf.keras.Input((28, 28, 1))

Seeds == {1, 2}          \* the weight initialisations drawn

\* ---- layers: kind, units (Dense, Conv2D filters), activation, and for a
\* built layer of the CNN the length of the last axis it was built for
LayerOf(kind, n, activation, built) ==
  [kind |-> kind, units |-> n, activation |-> activation, built |-> built]

DenseLayer(n, activation) == LayerOf("Dense", n, activation, 0)
ActivationLayer(fn) == LayerOf("Activation", 0, fn, 0)
DropoutLayer(rate) == LayerOf("Dropout", rate, "linear", 0)

\* def composite_layer(x, dropout_rate): the layers in the order they are
\* instantiated and called
composite_layer ==
  << DenseLayer(32, "linear"), ActivationLayer("relu"), DropoutLayer(dropout_rate),
     DenseLayer(64, "linear"), ActivationLayer("relu") >>

\* def get_dense_model(dropout_rate): the composite layer, then the output layer
get_dense_model == composite_layer \o << DenseLayer(10, "softmax") >>

\* CompositeLayer.layer_list
layer_list ==
  << DenseLayer(32, "linear"),
     ActivationLayer("relu"),
     DropoutLayer(dropout_rate),
     DenseLayer(64, "linear"),
     ActivationLayer("relu") >>

\* an output layer without the softmax
output_layer_Linear == DenseLayer(10, "linear")

\* DenseModel.output_layer
output_layer == DenseLayer(10, "softmax")

\* CNN.all_layers, built by model(tf.keras.Input((28, 28, 1)))
all_layers ==
  << LayerOf("Conv2D", 32, "linear", 1),
     LayerOf("BatchNormalization", 0, "linear", 32),
     ActivationLayer("relu"),
     LayerOf("MaxPool2D", 0, "linear", 0),
     DropoutLayer(dropout_rate),
     LayerOf("Conv2D", 32, "linear", 32),
     LayerOf("BatchNormalization", 0, "linear", 32),
     ActivationLayer("relu"),
     LayerOf("GlobalAveragePooling2D", 0, "linear", 0),
     LayerOf("BatchNormalization", 0, "linear", 32),
     DropoutLayer(dropout_rate),
     LayerOf("Dense", 128, "linear", 32),
     ActivationLayer("relu"),
     DropoutLayer(dropout_rate),
     LayerOf("Dense", 10, "linear", 128) >>

\* ---- weights of the Dense layers of a list of layers
\* position among the Dense layers of the layer at position k
DenseIndex(layers, k) == Cardinality({i \in 1..k : layers[i].kind = "Dense"})

\* the positions of the Dense layers, in order
DensePositions(layers) ==
  [n \in 1..DenseIndex(layers, Len(layers)) |->
     CHOOSE k \in 1..Len(layers) : layers[k].kind = "Dense" /\ DenseIndex(layers, k) = n]

KernelOf(r, c, seed) ==
  AsTuple([i \in 1..r |-> AsTuple([j \in 1..c |-> ((i * seed + j) % 3) - 1])])

BiasOf(c, seed) == AsTuple([j \in 1..c |-> (j + seed) % 2])

\* the layers are built for inputs of n features: the kernel of a Dense layer
\* has one row per feature of its input and one column per unit
BuiltWeights(layers, n, seed) ==
  LET pos == DensePositions(layers)
      fan_in(k) == IF k = 1 THEN n ELSE layers[pos[k - 1]].units
  IN  [k \in 1..Len(pos) |->
         << KernelOf(fan_in(k), layers[pos[k]].units, seed + k),
            BiasOf(layers[pos[k]].units, seed + k) >>]

\* model.count_params()
RECURSIVE count_params(_)
count_params(w) ==
  IF w = <<>> THEN 0
  ELSE Rows(w[1][1]) * Cols(w[1][1]) + Len(w[1][2]) + count_params(Tail(w))

\* ---- the activations
Relu(z) == IF z > 0 THEN z ELSE 0

\* exp(-d) in thousandths for a whole d >= 0
ExpTable == <<368, 135, 50, 18, 7, 2, 1>>

ExpNeg(d) == IF d = 0 THEN 1000 ELSE IF d > Len(ExpTable) THEN 0 ELSE ExpTable[d]

RECURSIVE MaxTo(_, _)
MaxTo(f, n) ==
  IF n = 1 THEN f[1]
  ELSE LET m == MaxTo(f, n - 1) IN IF f[n] > m THEN f[n] ELSE m

\* tf.nn.softmax of one row, in thousandths
Softmax(row) ==
  LET m == MaxTo(row, Len(row))
      e == AsTuple([j \in 1..Len(row) |-> ExpNeg(m - row[j])])
      total == SumTo(e, Len(e))
  IN  AsTuple([j \in 1..Len(row) |-> (e[j] * 1000) \div total])

Activate(fn, m) ==
  IF fn = "relu" THEN AsTuple([r \in 1..Rows(m) |-> AsTuple([j \in 1..Cols(m) |-> Relu(m[r][j])])])
  ELSE IF fn = "softmax" THEN AsTuple([r \in 1..Rows(m) |-> Softmax(m[r])])
  ELSE m

\* ---- Dropout: the units a mask keeps
Masks == {"all", "odd"}

Keeps(mask, j) == mask = "all" \/ (mask = "odd" /\ j % 2 = 1)

\* Dropout(rate).call(inputs, training): the identity unless training is
\* True; in training the kept units are scaled by 1 / (1 - rate)
DropoutCall(rate, m, args, mask) ==
  IF Len(args) = 0 \/ args[1] = FALSE THEN m
  ELSE AsTuple([r \in 1..Rows(m) |-> AsTuple([j \in 1..Cols(m) |->
          IF Keeps(mask, j) THEN (m[r][j] * 10) \div (10 - rate) ELSE 0])])

\* ---- layer(x, *args) for the layers of the dense models.  Dense.call and
\* Activation.call take the input alone: any further positional argument is
\* a TypeError.  Dropout.call takes (inputs, training = None).
LayerCall(l, w, v, args, mask) ==
  IF l.kind = "Dense"
    THEN IF Len(args) > 0 THEN Raised
         ELSE IF Cols(v) # Rows(w[1]) THEN Raised
         ELSE Ok(Activate(l.activation, AsTuple(BiasAdd(MatMul(v, w[1]), w[2]))))
  ELSE IF l.kind = "Activation"
    THEN IF Len(args) > 0 THEN Raised ELSE Ok(Activate(l.activation, v))
  ELSE Ok(DropoutCall(l.units, v, args, mask))

\* ---- layer(x, *args) for the layers of the CNN, on shapes
ShapeCall(l, sh, args) ==
  IF l.kind = "Conv2D"
    THEN IF Len(args) > 0 \/ Len(sh) # 4 THEN Raised
         ELSE IF sh[4] # l.built THEN Raised
         ELSE Ok(<<sh[1], sh[2], sh[3], l.units>>)
  ELSE IF l.kind = "BatchNormalization"
    THEN IF sh[Len(sh)] # l.built THEN Raised ELSE Ok(sh)
  ELSE IF l.kind = "Activation"
    THEN IF Len(args) > 0 THEN Raised ELSE Ok(sh)
  ELSE IF l.kind = "MaxPool2D"
    THEN IF Len(args) > 0 \/ Len(sh) # 4 THEN Raised
         ELSE IF sh[2] < 2 \/ sh[3] < 2 THEN Raised
         ELSE Ok(<<sh[1], sh[2] - 1, sh[3] - 1, sh[4]>>)
  ELSE IF l.kind = "GlobalAveragePooling2D"
    THEN IF Len(args) > 0 \/ Len(sh) # 4 THEN Raised ELSE Ok(<<sh[1], sh[4]>>)
  ELSE IF l.kind = "Dense"
    THEN IF Len(args) > 0 THEN Raised
         ELSE IF sh[Len(sh)] # l.built THEN Raised
         ELSE Ok([sh EXCEPT ![Len(sh)] = l.units])
  ELSE Ok(sh)

\* ---- a functional model run on v: Keras calls the layers in the order the
\* model was put together and passes training to the layers whose call
\* has this argument
FunctionalArgs(l, tr) == IF l.kind = "Dropout" THEN <<tr>> ELSE <<>>

RECURSIVE FunctionalRun(_, _, _, _, _, _)
FunctionalRun(layers, w, v, tr, mask, k) ==
  IF k > Len(layers) THEN Ok(v)
  ELSE LET l == layers[k]
           r == LayerCall(l, IF l.kind = "Dense" THEN w[DenseIndex(layers, k)] ELSE <<>>,
                          v, FunctionalArgs(l, tr), mask)
       IN  IF ~r.ok THEN Raised ELSE FunctionalRun(layers, w, r.val, tr, mask, k + 1)

\* ---- inputs drawn
XRow(p, n) == AsTuple([j \in 1..n |-> (j * p) % 3])

\* one or two rows of 16 features, and a row of 17
APIInputs ==
  { <<XRow(1, input_features)>>,
    <<XRow(1, input_features), XRow(2, input_features)>>,
    <<XRow(1, input_features + 1)>> }

\* image batches the CNN was built for, with three channels, too small to
\* pool, and a batch of feature vectors
CNNInputs ==
  { <<b, image_size, image_size, 1>> : b \in 1..MaxB } \cup
  { <<1, image_size, image_size, 3>>, <<1, 1, 1, 1>>, <<1, image_size>> }

\* ---- Init: the recurrent notebook has not run.  Either both dense models
\* are instantiated and built for 16 features (the subclassed model with the
\* weights of the functional model or with weights of its own), or the CNN
\* is instantiated and built.
RNNIdle ==
  /\ dense_input = <<>>
  /\ dense_hstate = <<>>
  /\ RNN_Cell_biases = <<>>
  /\ return_sequences = FALSE
  /\ caller = "none"
  /\ data = <<>>
  /\ t = 0
  /\ state = <<>>
  /\ hidden_states = <<>>
  /\ outputs = <<>>
  /\ prediction = <<>>
  /\ ncalls = 0
  /\ prev_shape = <<>>
  /\ cell_args = <<>>
  /\ cell_ret = <<>>
  /\ RNN_trainable_variables = <<>>
  /\ input_sequence = <<>>
  /\ dense_layer_input = <<>>
  /\ dense_layer_hstate = <<>>
  /\ bias = <<>>
  /\ custom_RNN_outputs = <<>>
  /\ printed = <<>>
  /\ trace = <<>>

InitAPI ==
  /\ RNNIdle
  /\ ConvIdle
  /\ TBIdle
  /\ GDIdle
  /\ VocabIdle
  /\ SWIdle
  /\ pc = "api.idle"
  /\ \/ /\ functional_weights = BuiltWeights(get_dense_model, input_features, 1)
        /\ subclassed_weights \in
             { BuiltWeights(layer_list \o <<output_layer>>, input_features, s) : s \in Seeds }
        /\ returned = [m \in {"functional_model", "DenseModel"} |-> <<>>]
     \/ /\ functional_weights = <<>>
        /\ subclassed_weights = <<>>
        /\ returned = [m \in {"CNN"} |-> <<>>]
  /\ callee = "none"
  /\ x_in = <<>>
  /\ x_local = <<>>
  /\ training = FALSE
  /\ layer = 0
  /\ calls = <<>>

\* ---- actions
APINoCall == pc \in {"api.idle", "api.raised"}

\* functional_model(v, training = tr)
FunctionalCall(v, tr, mask) ==
  /\ APINoCall
  /\ "functional_model" \in DOMAIN returned
  /\ LET r == FunctionalRun(get_dense_model, functional_weights, v, tr, mask, 1)
     IN  IF r.ok
           THEN /\ returned' = [returned EXCEPT !["functional_model"] = <<v, tr, r.val>>]
                /\ pc' = "api.idle"
           ELSE /\ returned' = returned
                /\ pc' = "api.raised"
  /\ callee' = "functional_model"
  /\ x_in' = v
  /\ x_local' = <<>>
  /\ training' = tr
  /\ layer' = 0
  /\ calls' = <<>>
  /\ UNCHANGED <<functional_weights, subclassed_weights, rnn_vars, not_api>>

\* subclassed_model(v, training = tr): DenseModel.call calls
\* self.composite_layer(x, training); model(v, training = tr) of the CNN
ModelCall(m, v, tr) ==
  /\ APINoCall
  /\ m \in DOMAIN returned
  /\ callee' = m
  /\ x_in' = v
  /\ x_local' = v
  /\ training' = tr
  /\ layer' = 1
  /\ calls' = <<>>
  /\ pc' = "try"
  /\ UNCHANGED <<functional_weights, subclassed_weights, returned, rnn_vars, not_api>>

\* the list the running call walks through
LayerList == IF callee = "CNN" THEN all_layers ELSE layer_list

\* layer(x_local, *args) for the layer at the current position
CurrentCall(args, mask) ==
  IF callee = "CNN" THEN ShapeCall(LayerList[layer], x_local, args)
  ELSE LET l == LayerList[layer]
       IN  LayerCall(l, IF l.kind = "Dense"
                          THEN subclassed_weights[DenseIndex(LayerList, layer)] ELSE <<>>,
                     x_local, args, mask)

CallRecord(args, r) ==
  [layer |-> layer, args |-> args, x |-> x_local, ok |-> r.ok, val |-> r.val]

\* try: x = layer(x, training), where a layer that raises is passed over
TryCall_Skip(mask) ==
  /\ pc = "try"
  /\ layer <= Len(LayerList)
  /\ LET r == CurrentCall(<<training>>, mask)
     IN  /\ calls' = Append(calls, CallRecord(<<training>>, r))
         /\ x_local' = IF r.ok THEN r.val ELSE x_local
         /\ layer' = layer + 1
         /\ pc' = "try"
  /\ UNCHANGED <<functional_weights, subclassed_weights, callee, x_in, training, returned,
                 rnn_vars, not_api>>

\* try: x = layer(x, training)
TryCall(mask) ==
  /\ pc = "try"
  /\ layer <= Len(LayerList)
  /\ LET r == CurrentCall(<<training>>, mask)
     IN  /\ calls' = Append(calls, CallRecord(<<training>>, r))
         /\ IF r.ok
              THEN /\ x_local' = r.val
                   /\ layer' = layer + 1
                   /\ pc' = "try"
              ELSE /\ pc' = "except"
                   /\ UNCHANGED <<x_local, layer>>
  /\ UNCHANGED <<functional_weights, subclassed_weights, callee, x_in, training, returned,
                 rnn_vars, not_api>>

\* except: x = layer(x); an exception of this call leaves the loop and the call
ExceptCall(mask) ==
  /\ pc = "except"
  /\ LET r == CurrentCall(<<>>, mask)
     IN  /\ calls' = Append(calls, CallRecord(<<>>, r))
         /\ IF r.ok
              THEN /\ x_local' = r.val
                   /\ layer' = layer + 1
                   /\ pc' = "try"
              ELSE /\ pc' = "api.raised"
                   /\ UNCHANGED <<x_local, layer>>
  /\ UNCHANGED <<functional_weights, subclassed_weights, callee, x_in, training, returned,
                 rnn_vars, not_api>>

\* the loop is over: "return x".  CNN.call returns to the caller of the model,
\* CompositeLayer.call returns to DenseModel.call
LoopEnd ==
  /\ pc = "try"
  /\ layer = Len(LayerList) + 1
  /\ IF callee = "CNN"
       THEN /\ returned' = [returned EXCEPT !["CNN"] = <<x_in, training, x_local>>]
            /\ pc' = "api.idle"
       ELSE /\ returned' = returned
            /\ pc' = "output_layer"
  /\ UNCHANGED <<functional_weights, subclassed_weights, callee, x_in, x_local, training,
                 layer, calls, rnn_vars, not_api>>

\* DenseModel.call: x = self.output_layer(x); return x
OutputLayer ==
  /\ pc = "output_layer"
  /\ LET r == LayerCall(output_layer, subclassed_weights[Len(subclassed_weights)],
                        x_local, <<>>, "all")
     IN  IF r.ok
           THEN /\ x_local' = r.val
                /\ returned' = [returned EXCEPT !["DenseModel"] = <<x_in, training, r.val>>]
                /\ pc' = "api.idle"
           ELSE /\ pc' = "api.raised"
                /\ UNCHANGED <<x_local, returned>>
  /\ UNCHANGED <<functional_weights, subclassed_weights, callee, x_in, training, layer,
                 calls, rnn_vars, not_api>>

NextAPI ==
  \/ \E v \in APIInputs, tr \in BOOLEAN, mask \in Masks : FunctionalCall(v, tr, mask)
  \/ \E v \in APIInputs, tr \in BOOLEAN : ModelCall("DenseModel", v, tr)
  \/ \E v \in CNNInputs, tr \in BOOLEAN : ModelCall("CNN", v, tr)
  \/ \E mask \in Masks : TryCall(mask)
  \/ \E mask \in Masks : ExceptCall(mask)
  \/ LoopEnd
  \/ OutputLayer

SpecAPI == InitAPI /\ [][NextAPI]_vars

\* =========================================================================
\* The notebook "Fully Connected Layers vs Convolutional Layers": a Conv2D
\* layer whose kernel covers the whole input, and a Dense layer on the
\* flattened input.  Images are <<batch, height, width, channels>> tensors.
\* =========================================================================
\* tf.size(tensor) of a tensor of rank 2 or 4
Size2(m) == Rows(m) * Cols(m)
Size4(k) == Len(k) * Len(k[1]) * Len(k[1][1]) * Len(k[1][1][1])

Shape4(k) == <<Len(k), Len(k[1]), Len(k[1][1]), Len(k[1][1][1])>>

\* the entries of a tensor of rank 4 in row-major order
Flatten4(k) ==
  LET sh == Shape4(k)
  IN  AsTuple([n \in 1..Size4(k) |->
        k[((n - 1) \div (sh[2] * sh[3] * sh[4])) + 1]
         [(((n - 1) \div (sh[3] * sh[4])) % sh[2]) + 1]
         [(((n - 1) \div sh[4]) % sh[3]) + 1]
         [((n - 1) % sh[4]) + 1]])

\* tf.reshape(flat entries, shape) for a shape of rank 4 and of rank 2
Build4(flat, sh) ==
  AsTuple([a \in 1..sh[1] |-> AsTuple([b \in 1..sh[2] |-> AsTuple([c \in 1..sh[3] |->
    AsTuple([d \in 1..sh[4] |->
       flat[(((a - 1) * sh[2] + (b - 1)) * sh[3] + (c - 1)) * sh[4] + d]])])])])

Build2(flat, sh) ==
  AsTuple([a \in 1..sh[1] |-> AsTuple([b \in 1..sh[2] |-> flat[(a - 1) * sh[2] + b]])])

\* tf.keras.layers.Flatten(): every example of the batch as one row
FlattenLayer(img) ==
  AsTuple([b \in 1..Len(img) |-> Flatten4(<<img[b]>>)])

\* a convolution that turns the kernel round before it is laid on the input
Conv2D_Flipped(img, kernel, b) ==
  LET kh == Len(kernel)
      kw == Len(kernel[1])
  IN  AsTuple([n \in 1..Len(img) |->
        AsTuple([i \in 1..(Len(img[n]) - kh + 1) |->
          AsTuple([j \in 1..(Len(img[n][1]) - kw + 1) |->
            AsTuple([f \in 1..Len(b) |->
              SumTo([p \in 1..(kh * kw * Len(kernel[1][1])) |->
                      LET h == ((p - 1) \div (kw * Len(kernel[1][1]))) + 1
                          w == (((p - 1) \div Len(kernel[1][1])) % kw) + 1
                          c == ((p - 1) % Len(kernel[1][1])) + 1
                      IN  img[n][i + h - 1][j + w - 1][c] * kernel[kh - h + 1][kw - w + 1][c][f]],
                    kh * kw * Len(kernel[1][1])) + b[f]])])])])

\* Conv2D(filters, kernel_size, strides = (1, 1), padding = "valid") called on
\* img: the kernel <<height, width, channels, filters>> is laid on every
\* position where it fits and multiplied entry by entry, the bias is added
Conv2D(img, kernel, b) ==
  LET kh == Len(kernel)
      kw == Len(kernel[1])
  IN  AsTuple([n \in 1..Len(img) |->
        AsTuple([i \in 1..(Len(img[n]) - kh + 1) |->
          AsTuple([j \in 1..(Len(img[n][1]) - kw + 1) |->
            AsTuple([f \in 1..Len(b) |->
              SumTo([p \in 1..(kh * kw * Len(kernel[1][1])) |->
                      LET h == ((p - 1) \div (kw * Len(kernel[1][1]))) + 1
                          w == (((p - 1) \div Len(kernel[1][1])) % kw) + 1
                          c == ((p - 1) % Len(kernel[1][1])) + 1
                      IN  img[n][i + h - 1][j + w - 1][c] * kernel[h][w][c][f]],
                    kh * kw * Len(kernel[1][1])) + b[f]])])])])

\* ---- inputs drawn: one image of one channel, with one pixel set or with a
\* pattern of grey values
Images ==
  { <<[h \in 1..ImgH |-> [w \in 1..ImgW |-> <<IF (h - 1) * ImgW + w = k THEN 1 ELSE 0>>]]>> :
       k \in 1..(ImgH * ImgW) }
  \cup
  { <<[h \in 1..ImgH |-> [w \in 1..ImgW |-> <<((h * p) + w) % 3>>]]>> : p \in 1..2 }

InitConv ==
  /\ RNNIdle
  /\ APIIdle
  /\ TBIdle
  /\ GDIdle
  /\ VocabIdle
  /\ SWIdle
  /\ pc = "conv.start"
  /\ input_img \in Images
  /\ convlayer = <<>>
  /\ denselayer = <<>>
  /\ denseoutput = <<>>
  /\ convoutput = <<>>

\* the cell up to the first outputs: both layers are instantiated and built
\* by their first call, each with weights of its own
ConvCell_Build ==
  /\ pc = "conv.start"
  /\ \E w \in SparseMats(ImgH * ImgW, n_outputs, BVals), b \in SparseVecs(n_outputs, BVals),
        v \in {-1, 1} :
       /\ denselayer' = <<w, b>>
       /\ convlayer' = << Build4([k \in 1..(ImgH * ImgW * n_outputs) |-> v],
                                 <<ImgH, ImgW, 1, n_outputs>>),
                          [f \in 1..n_outputs |-> 0] >>
  /\ denseoutput' = AsTuple(BiasAdd(MatMul(FlattenLayer(input_img), denselayer'[1]),
                                    denselayer'[2]))
  /\ convoutput' = Conv2D(input_img, convlayer'[1], convlayer'[2])
  /\ pc' = "conv.built"
  /\ UNCHANGED <<input_img, rnn_vars, api_vars, not_conv>>

\* the weights of the dense layer, reshaped, are assigned to the conv layer
ConvCell_Assign ==
  /\ pc = "conv.built"
  /\ LET dense_weights == Build4(Flatten(denselayer[1]), Shape4(convlayer[1]))
         dense_bias == denselayer[2]
     IN  convlayer' = <<dense_weights, dense_bias>>
  /\ pc' = "conv.assigned"
  /\ UNCHANGED <<input_img, denselayer, denseoutput, convoutput, rnn_vars, api_vars, not_conv>>

\* convoutput = convlayer(input_img), reshaped to the shape of denseoutput
ConvCell_Output ==
  /\ pc = "conv.assigned"
  /\ convoutput' = Build2(Flatten4(Conv2D(input_img, convlayer[1], convlayer[2])),
                          Shape(denseoutput))
  /\ pc' = "conv.done"
  /\ UNCHANGED <<input_img, denselayer, convlayer, denseoutput, rnn_vars, api_vars, not_conv>>

NextConv ==
  \/ ConvCell_Build
  \/ ConvCell_Assign
  \/ ConvCell_Output

SpecConv == InitConv /\ [][NextConv]_vars

\* =========================================================================
\* The notebook "Keeping track of training data with TensorBoard": the
\* training loop of the CNN.  The network itself is left out of this part: a
\* batch is what the loss function and the comparisons of predictions and
\* targets give on it.  Results of metrics are in hundredths.
\* =========================================================================
Epochs == 2          \* range(5) in the notebook
TrainBatches == 2    \* batches of train_ds
ValBatches == 2      \* batches of val_ds

\* a batch: its data loss, the number of examples whose class is predicted,
\* the number of examples whose class is among the three highest, its size,
\* and self.losses as they stand at the step: the L2 losses of the kernels of
\* the two Conv2D and the two Dense layers
TrainData ==
  { [loss |-> 8, acc |-> 0, top3 |-> 1, size |-> 2, losses |-> <<1, 0, 2, 1>>],
    [loss |-> 4, acc |-> 1, top3 |-> 2, size |-> 2, losses |-> <<0, 1, 1, 0>>] }

ValData ==
  { [loss |-> 2, acc |-> 1, top3 |-> 1, size |-> 2, losses |-> <<0, 1, 1, 0>>],
    [loss |-> 1, acc |-> 1, top3 |-> 1, size |-> 1, losses |-> <<0, 0, 1, 0>>] }

\* tf.reduce_sum(self.losses)
reduce_sum(l) == SumTo(l, Len(l))

\* self.metrics_list of CNN.__init__
fresh_metrics ==
  << [name |-> "loss", total |-> 0, count |-> 0],
     [name |-> "acc", total |-> 0, count |-> 0],
     [name |-> "top-3-acc", total |-> 0, count |-> 0] >>

\* tf.keras.metrics.Mean.update_state(value) for a scalar
Mean_update_state(m, value) == [m EXCEPT !.total = @ + value, !.count = @ + 1]

\* CategoricalAccuracy / TopKCategoricalAccuracy.update_state(targets, predictions)
Accuracy_update_state(m, matches, size) == [m EXCEPT !.total = @ + matches, !.count = @ + size]

\* metric.result(): total / count, 0 when nothing was counted
result(m) == IF m.count = 0 THEN 0 ELSE (m.total * 100) \div m.count

\* {m.name: m.result() for m in self.metrics}
results(ml) == AsTuple([i \in 1..Len(ml) |-> [name |-> ml[i].name, value |-> result(ml[i])]])

\* a reset that leaves the states as they are
reset_metrics_Keep(ml) == ml

\* CNN.reset_metrics
reset_metrics(ml) == AsTuple([i \in 1..Len(ml) |-> [ml[i] EXCEPT !.total = 0, !.count = 0]])

\* a step that leaves the regularization losses out of the loss metric
train_step_DataLoss(ml, b) ==
  << Mean_update_state(ml[1], b.loss) >>
  \o AsTuple([i \in 1..(Len(ml) - 1) |->
        Accuracy_update_state(ml[i + 1], IF i = 1 THEN b.acc ELSE b.top3, b.size)])

\* CNN.train_step: the metrics after the step on batch b; the loss is
\* loss_function(targets, predictions) + tf.reduce_sum(self.losses)
train_step(ml, b) ==
  << Mean_update_state(ml[1], b.loss + reduce_sum(b.losses)) >>
  \o AsTuple([i \in 1..(Len(ml) - 1) |->
        Accuracy_update_state(ml[i + 1], IF i = 1 THEN b.acc ELSE b.top3, b.size)])

\* CNN.test_step: the metrics after the step on batch b; the loss is
\* loss_function(targets, predictions) + tf.reduce_sum(self.losses)
test_step(ml, b) ==
  << Mean_update_state(ml[1], b.loss + reduce_sum(b.losses)) >>
  \o AsTuple([i \in 1..(Len(ml) - 1) |->
        Accuracy_update_state(ml[i + 1], IF i = 1 THEN b.acc ELSE b.top3, b.size)])

\* for metric in model.metrics: tf.summary.scalar(metric.name, metric.result(), step = epoch)
scalars(ml, e) ==
  AsTuple([i \in 1..Len(ml) |-> [tag |-> ml[i].name, value |-> result(ml[i]), step |-> e]])

InitTB ==
  /\ RNNIdle
  /\ APIIdle
  /\ ConvIdle
  /\ GDIdle
  /\ VocabIdle
  /\ SWIdle
  /\ pc = "tb.train"
  /\ epoch = 0
  /\ metrics_list = fresh_metrics
  /\ metrics = <<>>
  /\ train_summary_writer = <<>>
  /\ val_summary_writer = <<>>
  /\ batches = <<>>

\* for data in train_ds: metrics = model.train_step(data)
TrainStep ==
  /\ pc = "tb.train"
  /\ Len(batches) < TrainBatches
  /\ \E b \in TrainData :
       /\ metrics_list' = train_step(metrics_list, b)
       /\ batches' = Append(batches, b)
  /\ metrics' = results(metrics_list')
  /\ UNCHANGED <<pc, epoch, train_summary_writer, val_summary_writer, not_tb>>

\* the train loop is through: the metrics are written to the train log
TrainLog ==
  /\ pc = "tb.train"
  /\ Len(batches) = TrainBatches
  /\ train_summary_writer' = train_summary_writer \o scalars(metrics_list, epoch)
  /\ pc' = "tb.train_logged"
  /\ UNCHANGED <<epoch, metrics_list, metrics, val_summary_writer, batches, not_tb>>

\* model.reset_metrics(), then the validation loop begins
TrainReset ==
  /\ pc = "tb.train_logged"
  /\ metrics_list' = reset_metrics(metrics_list)
  /\ batches' = <<>>
  /\ pc' = "tb.val"
  /\ UNCHANGED <<epoch, metrics, train_summary_writer, val_summary_writer, not_tb>>

\* for data in val_ds: metrics = model.test_step(data)
TestStep ==
  /\ pc = "tb.val"
  /\ Len(batches) < ValBatches
  /\ \E b \in ValData :
       /\ metrics_list' = test_step(metrics_list, b)
       /\ batches' = Append(batches, b)
  /\ metrics' = results(metrics_list')
  /\ UNCHANGED <<pc, epoch, train_summary_writer, val_summary_writer, not_tb>>

\* the validation loop is through: the metrics are written to the validation log
ValLog ==
  /\ pc = "tb.val"
  /\ Len(batches) = ValBatches
  /\ val_summary_writer' = val_summary_writer \o scalars(metrics_list, epoch)
  /\ pc' = "tb.val_logged"
  /\ UNCHANGED <<epoch, metrics_list, metrics, train_summary_writer, batches, not_tb>>

\* model.reset_metrics(), then the next epoch begins or the loop is through
ValReset ==
  /\ pc = "tb.val_logged"
  /\ metrics_list' = reset_metrics(metrics_list)
  /\ batches' = <<>>
  /\ IF epoch + 1 < Epochs
       THEN /\ epoch' = epoch + 1
            /\ pc' = "tb.train"
       ELSE /\ epoch' = epoch
            /\ pc' = "tb.done"
  /\ UNCHANGED <<metrics, train_summary_writer, val_summary_writer, not_tb>>

NextTB ==
  \/ TrainStep
  \/ TrainLog
  \/ TrainReset
  \/ TestStep
  \/ ValLog
  \/ ValReset

SpecTB == InitTB /\ [][NextTB]_vars

\* =========================================================================
\* The notebook "Automatic Differentiation with tf.GradientTape()": gradient
\* descent on the single parameter of a linear model, example by example.
\* Inputs are whole numbers; targets, parameter and gradients are in
\* thousandths, the learning rate is in hundred-thousandths.
\* =========================================================================
n_examples == 20               \* tf.random.uniform((20, 1), ...)
pi_thousandths == 3142         \* np.pi
initial_estimate == 7500       \* tf.Variable(7.5)
learning_rate_units == 500     \* tf.constant(0.005)
range_epochs == 2              \* for epoch in range(2)

\* model(x, parameter)
model(x, parameter) == x * parameter

\* a gradient that leaves out the derivative of the prediction
gradients_NoChain(x, y, parameter) == << 2 * (model(x, parameter) - y) >>

\* tape.gradient(loss, [parameter_estimate]) for loss = (prediction - y)**2
\* and prediction = model(x, parameter): the derivative of the square times
\* the derivative of the prediction
gradients(x, y, parameter) == << (2 * (model(x, parameter) - y)) * x >>

\* lr * g of a learning rate in hundred-thousandths, rounded to the nearest
\* thousandth as floating-point arithmetic rounds to the nearest value
Scaled(lr, g) == ((lr * g) + 50000) \div 100000

\* parameter_estimate - learning_rate * gradients
new_parameter_val(parameter, lr, g) ==
  AsTuple([i \in 1..Len(g) |-> parameter - Scaled(lr, g[i])])

\* the data sets drawn: 20 inputs between 0 and 10
DataSets ==
  { AsTuple([i \in 1..n_examples |-> ((i * p) + q) % 10]) : p \in {1, 3, 7}, q \in {0, 1} }

InitGD ==
  /\ RNNIdle
  /\ APIIdle
  /\ ConvIdle
  /\ TBIdle
  /\ VocabIdle
  /\ SWIdle
  /\ pc = "gd.loop"
  /\ X \in DataSets
  /\ Y = AsTuple([i \in 1..Len(X) |-> X[i] * pi_thousandths])
  /\ parameter_estimate = initial_estimate
  /\ learning_rate = learning_rate_units
  /\ epochs = range_epochs
  /\ gd_epoch = 0
  /\ example = 0
  /\ updates = 0
  /\ optimizer = <<>>

\* one pass of the inner loop: the gradient of the loss on the next example,
\* the new value and its assignment
GradientStep ==
  /\ pc = "gd.loop"
  /\ example < Len(X)
  /\ LET x == X[example + 1]
         y == Y[example + 1]
         g == gradients(x, y, parameter_estimate)
     IN  parameter_estimate' = new_parameter_val(parameter_estimate, learning_rate, g)[1]
  /\ example' = example + 1
  /\ updates' = updates + 1
  /\ UNCHANGED <<pc, X, Y, learning_rate, epochs, gd_epoch, optimizer, not_gd>>

\* zip(X, Y) is through: the next epoch begins, or the loop over epochs ends
EpochEnd ==
  /\ pc = "gd.loop"
  /\ example = Len(X)
  /\ IF gd_epoch + 1 < epochs
       THEN /\ gd_epoch' = gd_epoch + 1
            /\ example' = 0
            /\ pc' = pc
       ELSE /\ pc' = "gd.done"
            /\ UNCHANGED <<gd_epoch, example>>
  /\ UNCHANGED <<X, Y, parameter_estimate, learning_rate, epochs, updates, optimizer, not_gd>>

NextGD ==
  \/ GradientStep
  \/ EpochEnd

SpecGD == InitGD /\ [][NextGD]_vars

\* =========================================================================
\* The notebook on tokenization: the vocabulary of the sentences of a text.
\* A string is a sequence of characters.
\* =========================================================================
MaxCorpus == 4       \* length of the longest text drawn

Characters == {"A", "b", "."}

\* str.lower(), character by character
lower(str) == AsTuple([k \in 1..Len(str) |-> IF str[k] = "A" THEN "a" ELSE str[k]])

\* str.split(sep) for a separator of one character: the pieces between the
\* separators, empty pieces included
split(str, sep) ==
  LET pieces[k \in 0..Len(str)] ==
        IF k = 0 THEN << <<>> >>
        ELSE IF str[k] = sep THEN Append(pieces[k - 1], <<>>)
        ELSE [pieces[k - 1] EXCEPT ![Len(pieces[k - 1])] = Append(@, str[k])]
  IN  pieces[Len(str)]

\* set(list)
set(list) == { list[k] : k \in 1..Len(list) }

\* list(a set): its elements once each, in one of the orders the set may be
\* iterated in
Orders(S) ==
  { f \in [1..Cardinality(S) -> S] : \A a, b \in 1..Cardinality(S) : a # b => f[a] # f[b] }

\* list[1:]
FromSecond(list) == AsTuple([k \in 1..(Len(list) - 1) |-> list[k + 1]])

Corpora == UNION { [1..n -> Characters] : n \in 1..MaxCorpus }

InitVocab ==
  /\ RNNIdle
  /\ APIIdle
  /\ ConvIdle
  /\ TBIdle
  /\ GDIdle
  /\ SWIdle
  /\ pc = "vocab.start"
  /\ \E raw \in Corpora : text_corpus = lower(raw)
  /\ sentence_tokens = <<>>
  /\ vocab_list = <<>>
  /\ vocab = <<>>
  /\ reverse_vocab = <<>>

\* sentence_tokens = text_corpus.split("."), vocab_list =
\* list(set(sentence_tokens))[1:], and the two empty dictionaries
VocabCell ==
  /\ pc = "vocab.start"
  /\ sentence_tokens' = split(text_corpus, ".")
  /\ \E order \in Orders(set(sentence_tokens')) : vocab_list' = FromSecond(order)
  /\ vocab' = <<>>
  /\ reverse_vocab' = <<>>
  /\ pc' = "vocab.loop"
  /\ UNCHANGED <<text_corpus, not_vocab>>

\* for i, element in enumerate(vocab_list): one pass
VocabLoopStep ==
  /\ pc = "vocab.loop"
  /\ LET i == Cardinality(DOMAIN reverse_vocab)
     IN  /\ i < Len(vocab_list)
         /\ LET element == vocab_list[i + 1]
            IN  /\ vocab' = [e \in (DOMAIN vocab) \cup {element} |->
                               IF e = element THEN i ELSE vocab[e]]
                /\ reverse_vocab' = [k \in 0..i |->
                               IF k = i THEN element ELSE reverse_vocab[k]]
  /\ UNCHANGED <<pc, text_corpus, sentence_tokens, vocab_list, not_vocab>>

VocabLoopEnd ==
  /\ pc = "vocab.loop"
  /\ Cardinality(DOMAIN reverse_vocab) = Len(vocab_list)
  /\ pc' = "vocab.done"
  /\ UNCHANGED <<vocab_vars, not_vocab>>

NextVocab ==
  \/ VocabCell
  \/ VocabLoopStep
  \/ VocabLoopEnd

SpecVocab == InitVocab /\ [][NextVocab]_vars

\* =========================================================================
\* The notebook "Keeping track of training data with TensorBoard": the loop
\* that shows what a summary writer can store.  A summary is written to the
\* writer that is the default one at the call; of the data only the number of
\* items is kept.
\* =========================================================================
n_steps == 100            \* for i in range(100)
n_generated == 32         \* the batch of images and of audio has 32 items
max_outputs == 32         \* max_outputs = 32

\* a summary of kind k under name n at step st holding c items
Summary(k, n, st, c) == [kind |-> k, name |-> n, step |-> st, items |-> c]

\* the number of items of a batch that a summary with max_outputs keeps
Kept(batch, most) == IF batch < most THEN batch ELSE most

InitSW ==
  /\ RNNIdle
  /\ APIIdle
  /\ ConvIdle
  /\ TBIdle
  /\ GDIdle
  /\ VocabIdle
  /\ pc = "sw.body"
  /\ summary_writer = <<>>
  /\ log_step = 0

\* the first part of the body: loss, image_batch, audio_batch, text and
\* histogram are computed, none of them kept beyond the pass
Body_Compute ==
  /\ pc = "sw.body"
  /\ pc' = "sw.scalar"
  /\ UNCHANGED <<sw_vars, not_sw>>

\* a histogram summary that is written at step 0 whatever the pass
Summary_histogram_StepZero ==
  /\ pc = "sw.histogram"
  /\ summary_writer' = Append(summary_writer,
                              Summary("histogram", "layer_N_activations", 0, 1))
  /\ pc' = "sw.next"
  /\ UNCHANGED <<log_step, not_sw>>

\* tf.summary.scalar(name = "loss", data = loss, step = i)
Summary_scalar ==
  /\ pc = "sw.scalar"
  /\ summary_writer' = Append(summary_writer, Summary("scalar", "loss", log_step, 1))
  /\ pc' = "sw.image"
  /\ UNCHANGED <<log_step, not_sw>>

\* tf.summary.image(name = "generated_images", data = image_batch, step = i, max_outputs = 32)
Summary_image ==
  /\ pc = "sw.image"
  /\ summary_writer' = Append(summary_writer,
        Summary("image", "generated_images", log_step, Kept(n_generated, max_outputs)))
  /\ pc' = "sw.audio"
  /\ UNCHANGED <<log_step, not_sw>>

\* tf.summary.audio(name = "generated_audio", data = audio_batch, ..., step = i, max_outputs = 32)
Summary_audio ==
  /\ pc = "sw.audio"
  /\ summary_writer' = Append(summary_writer,
        Summary("audio", "generated_audio", log_step, Kept(n_generated, max_outputs)))
  /\ pc' = "sw.text"
  /\ UNCHANGED <<log_step, not_sw>>

\* tf.summary.text(name = "generated_text", data = text, step = i)
Summary_text ==
  /\ pc = "sw.text"
  /\ summary_writer' = Append(summary_writer, Summary("text", "generated_text", log_step, 1))
  /\ pc' = "sw.histogram"
  /\ UNCHANGED <<log_step, not_sw>>

\* tf.summary.histogram(name = "layer_N_activations", data = histogram, step = i)
Summary_histogram ==
  /\ pc = "sw.histogram"
  /\ summary_writer' = Append(summary_writer,
                              Summary("histogram", "layer_N_activations", log_step, 1))
  /\ pc' = "sw.next"
  /\ UNCHANGED <<log_step, not_sw>>

\* for i in range(100): the next value, or the end of the loop, after which i
\* keeps its last value
NextStep ==
  /\ pc = "sw.next"
  /\ IF log_step + 1 < n_steps
       THEN /\ log_step' = log_step + 1
            /\ pc' = "sw.body"
       ELSE /\ log_step' = log_step
            /\ pc' = "sw.done"
  /\ UNCHANGED <<summary_writer, not_sw>>

NextSW ==
  \/ Body_Compute
  \/ Summary_scalar
  \/ Summary_image
  \/ Summary_audio
  \/ Summary_text
  \/ Summary_histogram
  \/ NextStep

SpecSW == InitSW /\ [][NextSW]_vars

\* =========================================================================
\* The same loop with an optimizer: the gradient of the MeanSquaredError loss
\* is applied by tf.keras.optimizers.SGD.  Units as in the loop above; the
\* momentum is in tenths.
\* =========================================================================
sgd_learning_rate == 500      \* SGD(learning_rate = 0.005, ...)
sgd_momentum == 0             \* momentum = 0
sgd_initial_estimate == 7500  \* tf.Variable(7.5)
sgd_range_epochs == 2         \* for epoch in range(2)

\* an optimizer that is given a momentum of 0.9 whatever it is asked for
SGD_Momentum(lr, momentum) == [learning_rate |-> lr, momentum |-> 9, velocity |-> 0]

\* tf.keras.optimizers.SGD(learning_rate, momentum): the settings and the
\* velocity kept for the variable
SGD(lr, momentum) == [learning_rate |-> lr, momentum |-> momentum, velocity |-> 0]

\* tape.gradient(loss, [parameter_estimate]) for loss = loss_function(y,
\* prediction) with MeanSquaredError: the mean over the last axis of the
\* squared differences; x and y are vectors
mse_gradients(x, y, parameter) ==
  << SumTo([k \in 1..Len(x) |-> (2 * (model(x[k], parameter) - y[k])) * x[k]], Len(x))
       \div Len(x) >>

\* optimizer.apply_gradients for one variable: without momentum the variable
\* moves by -learning_rate * gradient, with momentum by the new velocity
apply_gradients(opt, var, g) ==
  IF opt.momentum = 0
    THEN [var |-> var - Scaled(opt.learning_rate, g), opt |-> opt]
    ELSE LET v == ((opt.momentum * opt.velocity) \div 10) - Scaled(opt.learning_rate, g)
         IN  [var |-> var + v, opt |-> [opt EXCEPT !.velocity = v]]

InitSGD ==
  /\ RNNIdle
  /\ APIIdle
  /\ ConvIdle
  /\ TBIdle
  /\ VocabIdle
  /\ SWIdle
  /\ pc = "sgd.loop"
  /\ optimizer = SGD(sgd_learning_rate, sgd_momentum)
  /\ X \in DataSets
  /\ Y = AsTuple([i \in 1..Len(X) |-> X[i] * pi_thousandths])
  /\ parameter_estimate = sgd_initial_estimate
  /\ learning_rate = 0
  /\ epochs = sgd_range_epochs
  /\ gd_epoch = 0
  /\ example = 0
  /\ updates = 0

\* one pass of the inner loop: the gradient of the loss on the next example
\* is handed to the optimizer
OptimizerStep ==
  /\ pc = "sgd.loop"
  /\ example < Len(X)
  /\ LET x == <<X[example + 1]>>
         y == <<Y[example + 1]>>
         g == mse_gradients(x, y, parameter_estimate)
         applied == apply_gradients(optimizer, parameter_estimate, g[1])
     IN  /\ parameter_estimate' = applied.var
         /\ optimizer' = applied.opt
  /\ example' = example + 1
  /\ updates' = updates + 1
  /\ UNCHANGED <<pc, X, Y, learning_rate, epochs, gd_epoch, not_gd>>

\* zip(X, Y) is through: the next epoch begins, or the loop over epochs ends
OptimizerEpochEnd ==
  /\ pc = "sgd.loop"
  /\ example = Len(X)
  /\ IF gd_epoch + 1 < epochs
       THEN /\ gd_epoch' = gd_epoch + 1
            /\ example' = 0
            /\ pc' = pc
       ELSE /\ pc' = "sgd.done"
            /\ UNCHANGED <<gd_epoch, example>>
  /\ UNCHANGED <<X, Y, parameter_estimate, learning_rate, epochs, updates, optimizer, not_gd>>

NextSGD ==
  \/ OptimizerStep
  \/ OptimizerEpochEnd

SpecSGD == InitSGD /\ [][NextSGD]_vars

\* ================================================================= claims
\* entry j of tanh(x W_xh + h W_hh + b) for ONE input vector x and ONE state
\* vector h, written out as the sums of the cell equation
Equation(x, h, W_xh, W_hh, b, j) ==
  Tanh(SumTo([i \in 1..Len(x) |-> x[i] * W_xh[i][j]], Len(x))
       + SumTo([k \in 1..Len(h) |-> h[k] * W_hh[k][j]], Len(h))
       + b[j])

\* the cell equation for every sequence r of a batch; hrow(r) is the state
\* vector of sequence r
EquationRows(x, hrow(_), W_xh, W_hh, b) ==
  [r \in 1..Rows(x) |-> [j \in 1..Len(b) |-> Equation(x[r], hrow(r), W_xh, W_hh, b, j)]]

\* arguments of a direct call that fit the kernels and each other
WellShaped(x, h) ==
  /\ Rows(x) = Rows(h)
  /\ Cols(x) = Rows(dense_input)
  /\ Cols(h) = Rows(dense_hstate)

C1_Direct ==
  (cell_args # <<>> /\ WellShaped(cell_args[1], cell_args[2])) =>
     LET h == cell_args[2]
         hrow(r) == h[r]
     IN  cell_ret = Ok(EquationRows(cell_args[1], hrow, dense_input, dense_hstate,
                                    RNN_Cell_biases))

C1_WrapperStep ==
  (pc = "loop" /\ t' = t + 1) =>
     LET hrow(r) == state[r]
     IN  state' = EquationRows(TimeSlice(data, t), hrow, dense_input, dense_hstate,
                               RNN_Cell_biases)

C1_ManualStep ==
  (pc \in {"c1b57de0", "33cee053", "1c416bf4", "bcb25148"} /\ t' = t + 1) =>
     LET hrow(r) == IF Rows(state) = 1 THEN state[1] ELSE state[r]
     IN  state' = EquationRows(TimeSlice(input_sequence, t), hrow, dense_layer_input,
                               dense_layer_hstate, bias)

\* C1: CustomSimpleRNNCell.call(x, h) returns tanh(x W_xh + h W_hh + b) entry
\* by entry, for every sequence of the batch, and every iteration of the
\* wrapper's loop and of the hand-made loops replaces the state by that value.
C1_CellEquation ==
  /\ []C1_Direct
  /\ [][C1_WrapperStep]_vars
  /\ [][C1_ManualStep]_vars

NonZero(m) == \E r \in 1..Rows(m) : \E j \in 1..Cols(m) : m[r][j] # 0

\* a direct call with non-zero kernels and bias returned a state with a
\* saturated entry and a negative entry
C1_Witness ==
  /\ cell_args # <<>>
  /\ WellShaped(cell_args[1], cell_args[2])
  /\ NonZero(dense_input) /\ NonZero(dense_hstate) /\ NonZero(<<RNN_Cell_biases>>)
  /\ cell_ret.ok
  /\ \E r \in 1..Rows(cell_ret.val) : \E j \in 1..units : cell_ret.val[r][j] = 4
  /\ \E r \in 1..Rows(cell_ret.val) : \E j \in 1..units : cell_ret.val[r][j] < 0

\* C2 as claimed: once a call of the wrapper with return_sequences = True is
\* over, it has returned all states, and the last state of every sequence is
\* what the call returns for the same input with return_sequences = False.
C2_LastEqualsFinal ==
  (caller = "RNNWrapper" /\ return_sequences /\ pc \in {"done", "raised"} /\ Fits(data)) =>
     /\ pc = "done"
     /\ \A b \in 1..Len(data) :
          outputs[b][Len(data[1])] = StateAfter(data, Len(data[1]))[b]

\* the hand-made loop of cell 1c416bf4 as a function: the state after the
\* first k iterations
RECURSIVE ManualStateAfter(_, _)
ManualStateAfter(d, k) ==
  IF k = 0 THEN Zeros(Len(d), units)
  ELSE ManualStep(TimeSlice(d, k - 1), ManualStateAfter(d, k - 1)).val

\* C3 as claimed: a call of the wrapper returns T states per sequence, indexed
\* [batch][time], entry [b][k] being the state of sequence b after inputs
\* 0..k, or with return_sequences = False the state after the last step; the
\* hand-made TensorArray loop returns the same layout.
C3_AllStates ==
  /\ (caller = "RNNWrapper" /\ pc \in {"done", "raised"} /\ Fits(data)) =>
       /\ pc = "done"
       /\ IF return_sequences
            THEN /\ Len(outputs) = Len(data)
                 /\ \A b \in 1..Len(data) :
                      /\ Len(outputs[b]) = Len(data[1])
                      /\ \A k \in 1..Len(data[1]) : outputs[b][k] = StateAfter(data, k)[b]
            ELSE outputs = StateAfter(data, Len(data[1]))
  /\ pc = "1c416bf4.done" =>
       /\ Len(custom_RNN_outputs) = Len(input_sequence)
       /\ \A b \in 1..Len(input_sequence) :
            /\ Len(custom_RNN_outputs[b]) = Len(input_sequence[1])
            /\ \A k \in 1..Len(input_sequence[1]) :
                 custom_RNN_outputs[b][k] = ManualStateAfter(input_sequence, k)[b]

\* C5 as claimed: a step whose state and input differ in batch cardinality, or
\* whose feature lengths do not fit the kernels, raises and yields no state:
\* a direct call with such arguments raises, and a hand-made loop whose state
\* has one row for an input of several sequences does not get past its first
\* iteration.
C5_NoBroadcast ==
  /\ (cell_args # <<>> /\ ~WellShaped(cell_args[1], cell_args[2])) => ~cell_ret.ok
  /\ (pc \in {"c1b57de0", "33cee053"} /\ Len(input_sequence) # 1) => t = 0

\* ---- the built-in layers: tf.keras.layers.SimpleRNNCell inside
\* tf.keras.layers.RNN, after the equation the notebook states for them:
\* h<t+1> = tanh(W_hh h<t> + W_xh x<t> + b), from a zero state
BuiltinCell(x, h) ==
  TanhAll([r \in 1..Rows(x) |-> [j \in 1..units |->
     (SumTo([i \in 1..Cols(x) |-> x[r][i] * RNN_trainable_variables[1][i][j]], Cols(x))
        + RNN_trainable_variables[3][j])
     + SumTo([k \in 1..units |-> h[r][k] * RNN_trainable_variables[2][k][j]], units)]])

RECURSIVE BuiltinStateAfter(_, _)
BuiltinStateAfter(d, k) ==
  IF k = 0 THEN Zeros(Len(d), units)
  ELSE BuiltinCell(TimeSlice(d, k - 1), BuiltinStateAfter(d, k - 1))

\* output = RNN(input_sequence) with return_sequences = False
output == BuiltinStateAfter(input_sequence, Len(input_sequence[1]))

\* RNN_outputs = RNN(input_sequence) with return_sequences = True
RNN_outputs ==
  [b \in 1..Len(input_sequence) |->
    [k \in 1..Len(input_sequence[1]) |-> BuiltinStateAfter(input_sequence, k)[b]]]

\* C4: with the built-in cell's kernels and bias assigned to the hand-made
\* layers, the hand-made loop ends in the state the built-in RNN returns, and
\* the hand-made loop that collects the states returns the sequence of states
\* the built-in RNN returns with return_sequences = True.
C4_SameAsBuiltin ==
  /\ pc = "33cee053.done" => state = output
  /\ pc \in {"1c416bf4.done", "bcb25148.done"} => custom_RNN_outputs = RNN_outputs

\* the hand-made sequence loop is over for two sequences of two steps whose
\* states differ between the sequences and between the steps, with a state
\* kernel that is not symmetric
C4_Witness ==
  /\ pc = "1c416bf4.done"
  /\ Len(input_sequence) = 2 /\ Len(input_sequence[1]) = 2
  /\ custom_RNN_outputs[1] # custom_RNN_outputs[2]
  /\ custom_RNN_outputs[1][1] # custom_RNN_outputs[1][2]
  /\ dense_layer_hstate[1][2] # dense_layer_hstate[2][1]
  /\ NonZero(<<bias>>)

\* C6: a call of RNN_Model that follows another call of the same instance,
\* on an input of any batch cardinality and length with the feature length of
\* the kernels, does not raise, gives every sequence a state, runs as many
\* iterations as the new input has time steps and returns one row of ten
\* entries per sequence.
C6_Reuse ==
  (caller = "RNN_Model" /\ ncalls >= 2 /\ Fits(data)) =>
     /\ pc # "raised"
     /\ Shape(state) = <<Len(data), units>>
     /\ t <= Len(data[1])
     /\ pc \in {"head", "done"} => (t = Len(data[1]) /\ Shape(outputs) = <<Len(data), units>>)
     /\ pc = "done" => prediction = <<Len(data), out_units>>

\* a second call is over whose input has another batch cardinality and
\* another length than the input of the call before
C6_Witness ==
  /\ caller = "RNN_Model" /\ ncalls = 2 /\ pc = "done"
  /\ prev_shape # <<>>
  /\ prev_shape[1] # Len(data) /\ prev_shape[2] # Len(data[1])
  /\ Len(data) = 1

\* C7: every call starts its loop from the zero state, and what a call
\* returns is what a call on a fresh instance returns for the same input,
\* however often the instance was called before.
C7_NoCarryOver ==
  /\ (pc = "loop" /\ t = 0) => state = Zeros(Len(data), units)
  /\ (pc \in {"head", "done"} /\ ~return_sequences) =>
        outputs = StateAfter(data, Len(data[1]))

\* a second call returned a non-zero state after a first call of the same
\* shape that has run its loop
C7_Witness ==
  /\ ncalls = 2 /\ pc = "done"
  /\ prev_shape = <<Len(data), Len(data[1])>>
  /\ NonZero(outputs)
  /\ NonZero(dense_hstate)

\* C8: the state of every sequence of a batch is, after every iteration and
\* in the returned value, the state the driver computes for that sequence
\* alone.
C8_BatchIndependence ==
  (pc \in {"loop", "head", "done"} /\ Fits(data)) =>
     \A b \in 1..Len(data) :
        /\ state[b] = StateAfter(<<data[b]>>, t)[1]
        /\ (pc # "loop" /\ ~return_sequences) =>
              outputs[b] = StateAfter(<<data[b]>>, Len(data[1]))[1]

\* a call on two different sequences returned two different states
C8_Witness ==
  /\ pc = "done" /\ Fits(data)
  /\ Len(data) = 2
  /\ data[1] # data[2]
  /\ outputs[1] # outputs[2]

\* the first k time steps of every sequence of an input
Truncate(d, k) == [b \in 1..Len(d) |-> SubSeq(d[b], 1, k)]

\* C9: the state after k iterations is the state the driver computes for the
\* input truncated to its first k time steps, for every k up to the length.
C9_PrefixStability ==
  (pc \in {"loop", "head", "done"} /\ Fits(data)) =>
     state = StateAfter(Truncate(data, t), t)

\* the loop stands after a proper prefix, with a non-zero state, of an input
\* whose later step differs from the first
C9_Witness ==
  /\ pc = "loop" /\ Fits(data)
  /\ t >= 1 /\ t < Len(data[1])
  /\ NonZero(state)
  /\ data[1][1] # data[1][Len(data[1])]

AllZero(m) == \A r \in 1..Rows(m) : \A j \in 1..Cols(m) : m[r][j] = 0

\* C10: with zero kernels and a zero bias every state of a run is zero: the
\* state after every iteration, the returned final state, and every state of
\* the sequence the hand-made loop returns.
C10_ZeroWeights ==
  /\ (pc \in {"loop", "head", "done"} /\ Fits(data)
        /\ AllZero(dense_input) /\ AllZero(dense_hstate) /\ AllZero(<<RNN_Cell_biases>>)) =>
       /\ AllZero(state)
       /\ pc # "loop" => AllZero(outputs)
  /\ (pc \in {"33cee053", "33cee053.done", "1c416bf4", "1c416bf4.done"}
        /\ AllZero(dense_layer_input) /\ AllZero(dense_layer_hstate) /\ AllZero(<<bias>>)) =>
       /\ AllZero(state)
       /\ pc = "1c416bf4.done" =>
            \A b \in 1..Len(custom_RNN_outputs) : AllZero(custom_RNN_outputs[b])

\* a call with zero weights returned for two sequences of two steps
C10_Witness ==
  /\ pc = "done" /\ Fits(data)
  /\ AllZero(dense_input) /\ AllZero(dense_hstate) /\ AllZero(<<RNN_Cell_biases>>)
  /\ Len(data) = 2 /\ Len(data[1]) = 2
  /\ outputs = Zeros(2, units)

StateDim(s) == \A r \in 1..Len(s) : Len(s[r]) = units

\* C12: whenever a state exists (before the first step, between the steps,
\* after the last one, and in the returned final state) each sequence's state
\* vector has length units, and units is the number of columns of the input
\* kernel and of the state kernel, for the subclassed layers and the hand-made
\* loops alike.
C12_StateDimension ==
  /\ state # <<>> => StateDim(state)
  /\ dense_input # <<>> => (Cols(dense_input) = units /\ Cols(dense_hstate) = units)
  /\ dense_layer_input # <<>> =>
        (Cols(dense_layer_input) = units /\ Cols(dense_layer_hstate) = units)
  /\ (pc \in {"head", "done"} /\ ~return_sequences) => StateDim(outputs)
  /\ (cell_ret # <<>> /\ cell_ret.ok) => StateDim(cell_ret.val)

\* the wrapper's loop has run two steps on two sequences and holds a state
\* that is not zero
C12_Witness ==
  /\ pc = "loop" /\ t = 2 /\ Len(data) = 2
  /\ NonZero(state)
  /\ StateDim(state)

C13_FrameStep ==
  /\ pc \in {"loop", "head"} => (weights' = weights /\ data' = data)
  /\ cell_ret' # cell_ret => weights' = weights
  /\ pc \in {"c1b57de0", "33cee053", "1c416bf4", "bcb25148"} =>
        /\ dense_layer_input' = dense_layer_input
        /\ dense_layer_hstate' = dense_layer_hstate
        /\ bias' = bias
        /\ input_sequence' = input_sequence
        /\ RNN_trainable_variables' = RNN_trainable_variables

Indices(n) == [k \in 1..n |-> k - 1]

\* C14 as claimed: every run on an input of T time steps whose feature length
\* fits ends after the step was applied to the time indices 0, 1, ..., T - 1,
\* each once and in this order: a call of the wrapper or of the model, and
\* the hand-made loops.
C14_ExactlyTSteps ==
  /\ (caller \in {"RNNWrapper", "RNN_Model"} /\ pc \in {"head", "done", "raised"}
        /\ Fits(data)) =>
       trace = Indices(Len(data[1]))
  /\ pc \in {"c1b57de0.done", "33cee053.done", "1c416bf4.done", "bcb25148.done"} =>
       trace = Indices(Len(input_sequence[1]))

\* C15: the subclassed model is the functional model: the layers of
\* CompositeLayer.layer_list followed by DenseModel.output_layer are the
\* layers get_dense_model puts together, in the same order (Dense(32), ReLU,
\* Dropout, Dense(64), ReLU, Dense(10, softmax)); both built models have 3306
\* parameters; and when both were called with training = False on the same
\* input while holding the same weights, they returned the same output.
C15_SameModel ==
  /\ layer_list \o <<output_layer>> = get_dense_model
  /\ get_dense_model =
       << DenseLayer(32, "linear"), ActivationLayer("relu"), DropoutLayer(dropout_rate),
          DenseLayer(64, "linear"), ActivationLayer("relu"), DenseLayer(10, "softmax") >>
  /\ functional_weights # <<>> =>
       /\ count_params(functional_weights) = 3306
       /\ count_params(subclassed_weights) = 3306
  /\ ("DenseModel" \in DOMAIN returned
        /\ returned["DenseModel"] # <<>> /\ returned["functional_model"] # <<>>
        /\ returned["DenseModel"][1] = returned["functional_model"][1]
        /\ ~returned["DenseModel"][2] /\ ~returned["functional_model"][2]
        /\ functional_weights = subclassed_weights) =>
       returned["DenseModel"][3] = returned["functional_model"][3]

\* both models returned for the same two rows with training = False and equal
\* weights; the output is not uniform
C15_Witness ==
  /\ "DenseModel" \in DOMAIN returned
  /\ returned["DenseModel"] # <<>> /\ returned["functional_model"] # <<>>
  /\ returned["DenseModel"][1] = returned["functional_model"][1]
  /\ Len(returned["DenseModel"][1]) = 2
  /\ ~returned["DenseModel"][2] /\ ~returned["functional_model"][2]
  /\ functional_weights = subclassed_weights
  /\ \E j \in 2..10 : returned["DenseModel"][3][1][j] # returned["DenseModel"][3][1][1]

\* C20: the layer calls of a call of CompositeLayer.call (inside DenseModel)
\* or CNN.call: the first call is layer 1 with (x, training) on the input;
\* after a call that returned comes the next layer with (x, training) on the
\* returned value; after a call with (x, training) that raised comes the same
\* layer with x alone on the same value, and never otherwise; a call with x
\* alone that raised is the last call and the model call has raised; a call
\* that went through the whole list called every layer and returns the value
\* of the last layer.
C20_TryThenFallback ==
  callee \in {"DenseModel", "CNN"} =>
    /\ \A k \in 1..Len(calls) :
         LET c == calls[k]
         IN  /\ k = 1 => (c.layer = 1 /\ c.args = <<training>> /\ c.x = x_in)
             /\ k > 1 =>
                  LET p == calls[k - 1]
                  IN  IF p.ok
                        THEN c.layer = p.layer + 1 /\ c.args = <<training>> /\ c.x = p.val
                        ELSE /\ p.args = <<training>>
                             /\ c.layer = p.layer /\ c.args = <<>> /\ c.x = p.x
             /\ (c.args = <<>> /\ ~c.ok) => (k = Len(calls) /\ pc = "api.raised")
             /\ (c.args = <<training>> /\ ~c.ok /\ k = Len(calls)) => pc = "except"
             /\ (c.ok /\ k = Len(calls)) => (x_local = c.val \/ pc = "api.idle")
    /\ (pc = "output_layer" \/ (pc = "api.idle" /\ callee = "CNN")) =>
         /\ calls # <<>>
         /\ calls[Len(calls)].ok
         /\ calls[Len(calls)].layer = Len(LayerList)
    /\ (pc = "api.idle" /\ callee = "CNN") =>
         returned["CNN"] = <<x_in, training, calls[Len(calls)].val>>

\* a call of the CNN has raised in the second call of its fourth layer, after
\* the first and the third layer returned from their second call and the
\* second layer from its first
C20_Witness ==
  /\ callee = "CNN" /\ pc = "api.raised"
  /\ Len(calls) = 7
  /\ calls[2].ok /\ calls[2].args = <<>>
  /\ calls[3].ok /\ calls[3].args = <<training>>
  /\ calls[7].layer = 4 /\ calls[7].args = <<>> /\ ~calls[7].ok

\* C16: a Conv2D layer whose kernel is as large as the input, with strides
\* (1, 1) and padding "valid", computes what the dense layer computes: once the
\* dense kernel, reshaped to the kernel's shape, and the dense bias are
\* assigned to the convolution, the reshaped output of the convolution equals
\* the output of the dense layer on the flattened image, and both layers have
\* height x width x filters weights.
C16_ConvIsDense ==
  /\ pc \in {"conv.built", "conv.assigned", "conv.done"} =>
       /\ Size4(convlayer[1]) = ImgH * ImgW * n_outputs
       /\ Size2(denselayer[1]) = ImgH * ImgW * n_outputs
       /\ Shape4(convlayer[1]) = <<Len(input_img[1]), Len(input_img[1][1]), 1, n_outputs>>
  /\ pc \in {"conv.assigned", "conv.done"} =>
       /\ Flatten4(convlayer[1]) = Flatten(denselayer[1])
       /\ convlayer[2] = denselayer[2]
  /\ pc = "conv.done" => convoutput = denseoutput

C16_Witness ==
  /\ pc = "conv.done"
  /\ convoutput = denseoutput
  /\ \E j \in 1..n_outputs : denseoutput[1][j] # 0
  /\ \E k \in 1..(ImgH * ImgW) : denselayer[1][k][1] # 0
  /\ denselayer[2] # [f \in 1..n_outputs |-> 0]
  /\ \E h \in 1..ImgH, w \in 1..ImgW : input_img[1][h][w][1] > 1

\* the sum of field f over the batches bs
BatchSum(bs, f) == SumTo([i \in 1..Len(bs) |-> bs[i][f]], Len(bs))

\* the sum over the batches bs of the loss of the step: the data loss and
\* the regularization losses
LossSum(bs) ==
  SumTo([i \in 1..Len(bs) |-> bs[i].loss + SumTo(bs[i].losses, Len(bs[i].losses))], Len(bs))

\* what the batches bs alone give for the three metrics, written at step e
Aggregated(bs, e) ==
  << [tag |-> "loss", value |-> (LossSum(bs) * 100) \div Len(bs), step |-> e],
     [tag |-> "acc", value |-> (BatchSum(bs, "acc") * 100) \div BatchSum(bs, "size"), step |-> e],
     [tag |-> "top-3-acc", value |-> (BatchSum(bs, "top3") * 100) \div BatchSum(bs, "size"),
      step |-> e] >>

C17_State ==
  pc \in {"tb.train", "tb.train_logged", "tb.val", "tb.val_logged", "tb.done"} =>
    \* a phase begins with metrics that have counted nothing
    /\ (pc \in {"tb.train", "tb.val"} /\ batches = <<>>) =>
          \A i \in 1..Len(metrics_list) : metrics_list[i].total = 0 /\ metrics_list[i].count = 0
    /\ pc = "tb.done" => \A i \in 1..Len(metrics_list) : metrics_list[i].count = 0
    \* one entry per metric and finished phase, epoch by epoch
    /\ Len(train_summary_writer)
         = 3 * (epoch + (IF pc = "tb.train" THEN 0 ELSE 1))
    /\ Len(val_summary_writer)
         = 3 * (epoch + (IF pc \in {"tb.val_logged", "tb.done"} THEN 1 ELSE 0))
    /\ \A i \in 1..Len(train_summary_writer) : train_summary_writer[i].step = (i - 1) \div 3
    /\ \A i \in 1..Len(val_summary_writer) : val_summary_writer[i].step = (i - 1) \div 3

C17_Step ==
  /\ train_summary_writer' # train_summary_writer =>
       /\ pc = "tb.train" /\ Len(batches) = TrainBatches
       /\ \A i \in 1..Len(batches) : batches[i] \in TrainData
       /\ train_summary_writer' = train_summary_writer \o Aggregated(batches, epoch)
       /\ metrics_list' = metrics_list
  /\ val_summary_writer' # val_summary_writer =>
       /\ pc = "tb.val" /\ Len(batches) = ValBatches
       /\ \A i \in 1..Len(batches) : batches[i] \in ValData
       /\ val_summary_writer' = val_summary_writer \o Aggregated(batches, epoch)
       /\ metrics_list' = metrics_list
  \* the reset comes after the entry of the phase and before the next phase
  /\ (pc = "tb.train_logged" /\ pc' # pc) =>
       /\ pc' = "tb.val"
       /\ \A i \in 1..Len(metrics_list') : metrics_list'[i].total = 0 /\ metrics_list'[i].count = 0
  /\ (pc = "tb.val_logged" /\ pc' # pc) =>
       /\ pc' \in {"tb.train", "tb.done"}
       /\ \A i \in 1..Len(metrics_list') : metrics_list'[i].total = 0 /\ metrics_list'[i].count = 0

C18_OneEpoch ==
  /\ pc = "gd.loop" => updates <= n_examples
  /\ pc = "gd.done" => updates = n_examples /\ updates = Len(X)

\* what the loop does: one update per example and epoch
C18_UpdatesPerEpoch ==
  /\ pc = "gd.loop" => updates = gd_epoch * Len(X) + example
  /\ pc = "gd.done" => updates = range_epochs * n_examples

\* C19 as claimed: the vocabulary of sentences contains every distinct
\* non-empty sentence of the text (the pieces between the "."), each with an
\* index of its own, whatever the order in which the set of sentences is
\* iterated.  Stated for texts that, like the notebook's, end with a "." or
\* have an empty piece elsewhere, so that the set holds the empty string.
C19_EverySentence ==
  (pc = "vocab.done" /\ <<>> \in set(sentence_tokens)) =>
    /\ \A k \in 1..Len(sentence_tokens) :
         sentence_tokens[k] # <<>> => sentence_tokens[k] \in DOMAIN vocab
    /\ \A a, b \in DOMAIN vocab : a # b => vocab[a] # vocab[b]

\* what the cell does: the vocabulary holds every piece but the one the set
\* gave first, empty or not, and the two dictionaries are inverse to each other
C19_AllButFirst ==
  pc = "vocab.done" =>
    /\ Cardinality(DOMAIN vocab) = Cardinality(set(sentence_tokens)) - 1
    /\ DOMAIN vocab \subseteq set(sentence_tokens)
    /\ \A a \in DOMAIN vocab : reverse_vocab[vocab[a]] = a

\* where the set gave the empty string first, every sentence is in the vocabulary
C19_WhenEmptyFirst ==
  (pc = "vocab.done" /\ <<>> \in set(sentence_tokens) /\ <<>> \notin DOMAIN vocab) =>
    /\ \A k \in 1..Len(sentence_tokens) :
         sentence_tokens[k] # <<>> => sentence_tokens[k] \in DOMAIN vocab
    /\ \A a, b \in DOMAIN vocab : a # b => vocab[a] # vocab[b]

C21_Step ==
  (batches' # batches /\ batches' # <<>>) =>
    LET b == batches'[Len(batches')]
        total_loss == b.loss + SumTo(b.losses, Len(b.losses))
    IN  /\ pc \in {"tb.train", "tb.val"}
        /\ Len(metrics_list') = 3
        \* the loss mean: one more value, the total loss
        /\ metrics_list'[1] = [name |-> "loss",
                               total |-> metrics_list[1].total + total_loss,
                               count |-> metrics_list[1].count + 1]
        \* the other metrics: the examples of the batch, once
        /\ metrics_list'[2] = [name |-> "acc",
                               total |-> metrics_list[2].total + b.acc,
                               count |-> metrics_list[2].count + b.size]
        /\ metrics_list'[3] = [name |-> "top-3-acc",
                               total |-> metrics_list[3].total + b.top3,
                               count |-> metrics_list[3].count + b.size]
        \* the dictionary: one entry per metric, its name and its value now
        /\ Len(metrics') = Len(metrics_list')
        /\ \A i, j \in 1..Len(metrics') : i # j => metrics'[i].name # metrics'[j].name
        /\ \A i \in 1..Len(metrics') :
             /\ metrics'[i].name = metrics_list'[i].name
             /\ metrics'[i].value * metrics_list'[i].count <= metrics_list'[i].total * 100
             /\ metrics_list'[i].total * 100 < (metrics'[i].value + 1) * metrics_list'[i].count

\* C21: in CNN.train_step and CNN.test_step every metric is updated exactly
\* once per step, the loss mean with the scalar total loss (data loss plus
\* the sum of the regularization losses), every other metric with (targets,
\* predictions); the returned dictionary has exactly one entry per metric,
\* keyed by the metric's name and holding its current value.
C21_MetricsPerStep == [][C21_Step]_vars

C21_Witness ==
  /\ pc = "tb.val"
  /\ epoch = 1
  /\ Len(batches) = ValBatches
  /\ batches[1] # batches[2]
  /\ metrics_list[1].count = ValBatches
  /\ metrics_list[1].total = LossSum(batches)
  /\ metrics_list[1].total > BatchSum(batches, "loss")
  /\ Len(metrics) = 3
  /\ metrics[2].value = 66

\* the five kinds of summary and the names they are written under
SummaryNames ==
  << <<"scalar", "loss">>, <<"image", "generated_images">>, <<"audio", "generated_audio">>,
     <<"text", "generated_text">>, <<"histogram", "layer_N_activations">> >>

\* the summaries of the log written under name n, in the order of writing
Under(n) == SelectSeq(summary_writer, LAMBDA e : e.name = n)

\* C22: the loop that shows the summary writer writes, for each step i from 0
\* to 99 in increasing order, exactly one loss scalar, one image batch, one
\* audio batch, one text and one histogram summary, each with step = i: 100
\* entries under each name, no step left out or written twice.
C22_OnePerStep ==
  pc \in {"sw.body", "sw.scalar", "sw.image", "sw.audio", "sw.text", "sw.histogram",
          "sw.next", "sw.done"} =>
    /\ \A e \in 1..Len(summary_writer) :
         \E k \in 1..Len(SummaryNames) :
            /\ summary_writer[e].kind = SummaryNames[k][1]
            /\ summary_writer[e].name = SummaryNames[k][2]
    /\ \A k \in 1..Len(SummaryNames) :
         LET es == Under(SummaryNames[k][2])
         IN  /\ \A j \in 1..Len(es) : es[j].step = j - 1 /\ es[j].kind = SummaryNames[k][1]
             /\ Len(es) \in {log_step, log_step + 1}
             /\ pc \in {"sw.body", "sw.scalar"} => Len(es) = log_step
             /\ pc \in {"sw.next", "sw.done"} => Len(es) = log_step + 1
             /\ pc = "sw.done" => Len(es) = 100
    /\ \A e \in 1..Len(summary_writer) :
         summary_writer[e].kind \in {"image", "audio"} => summary_writer[e].items = 32

C22_Witness ==
  /\ pc = "sw.done"
  /\ Len(summary_writer) = 500
  /\ summary_writer[500] = [kind |-> "histogram", name |-> "layer_N_activations",
                            step |-> 99, items |-> 1]
  /\ summary_writer[1].step = 0
  /\ log_step = 99

C23_Step ==
  updates' # updates =>
    LET x == X[example + 1]
        y == Y[example + 1]
        a == parameter_estimate
    IN  /\ updates' = updates + 1
        /\ example' = example + 1
        \* one gradient step on (x * a - y)^2
        /\ parameter_estimate'
             = a - (((learning_rate * (2 * x * ((x * a) - y))) + 50000) \div 100000)
        \* at the true coefficient nothing changes
        /\ (\A k \in 1..Len(X) : Y[k] = X[k] * a) => parameter_estimate' = a

\* C23: each pass of the inner loop on an example (x, y) replaces the
\* parameter a by a - learning_rate * 2 * x * (x * a - y), one gradient step
\* on the squared error (x * a - y)^2; so when a is the true coefficient
\* (y = a * x for every example) every update leaves a as it is.
C23_GradientStep == [][C23_Step]_vars

C23_Witness ==
  /\ pc = "gd.loop"
  /\ gd_epoch = 1
  /\ example = Len(X)
  /\ updates = 2 * Len(X)
  /\ X[example] > 0
  /\ parameter_estimate = pi_thousandths
  /\ \A k \in 1..Len(X) : Y[k] = X[k] * parameter_estimate

\* the true coefficient is reached before the last example of the loop
C23_AtCoefficientBefore ==
  /\ pc = "gd.loop"
  /\ example < Len(X)
  /\ X[example + 1] > 0
  /\ updates > 0
  /\ parameter_estimate = pi_thousandths

\* the parameter of the loop that assigns parameter - learning_rate * gradient
\* by hand, after k examples of the data X, Y from estimate a0 with rate lr:
\* ManualFrom goes on from estimate a, reached after done examples
RECURSIVE ManualFrom(_, _, _, _)
ManualFrom(a, done, k, lr) ==
  IF a = a /\ done >= k THEN a
  ELSE LET at == (done % Len(X)) + 1
       IN  ManualFrom(new_parameter_val(a, lr, gradients(X[at], Y[at], a))[1], done + 1, k, lr)

ManualAfter(k, a0, lr) == ManualFrom(a0, 0, k, lr)

\* C24: on the same data, initial parameter and learning rate, the loop that
\* applies the gradients of the MeanSquaredError loss through the SGD
\* optimizer with momentum 0 has after every example the parameter value of
\* the loop that assigns parameter - learning_rate * gradient by hand on the
\* squared error.
C24_SameAsByHand ==
  pc \in {"sgd.loop", "sgd.done"} =>
    /\ updates = gd_epoch * Len(X) + example
    /\ parameter_estimate = ManualAfter(updates, sgd_initial_estimate, optimizer.learning_rate)

C24_Witness ==
  /\ pc = "sgd.done"
  /\ optimizer.momentum = 0
  /\ updates = 2 * Len(X)
  /\ parameter_estimate = ManualAfter(updates, sgd_initial_estimate, optimizer.learning_rate)
  /\ parameter_estimate # sgd_initial_estimate
  /\ ManualAfter(1, sgd_initial_estimate, optimizer.learning_rate) # sgd_initial_estimate

====
